---- MODULE Spec2Model ----
(***************************************************************************)
(* Model of the voice-interview orchestrator (src/websocket_api.py,        *)
(* src/aws_tts.py, src/llm.py).                                            *)
(*                                                                         *)
(* The program runs on one asyncio event loop.  A coroutine runs without   *)
(* interruption between two suspension points, so every action below is    *)
(* the code between two suspending awaits of one task: the websocket       *)
(* endpoint of a connection (receive_text, the transcription call, the     *)
(* completion call) or a _timeout_handler task (asyncio.sleep, the         *)
(* synthesis call in the executor, the 0.1 s pacing sleep).  send_text on  *)
(* a writable socket returns without suspending; it either succeeds or     *)
(* raises, and send_message turns the failure into disconnect().           *)
(*                                                                         *)
(* The per-user dictionaries of VoiceBotWebSocket are functions whose      *)
(* DOMAIN is the set of keys present.  Durations are not modelled: a       *)
(* sleeping task may wake at any later step.                               *)
(***************************************************************************)
EXTENDS Integers, Sequences, FiniteSets, TLC

\* ------------------------------------------------------------- bounds
\* timer tasks (created and not yet finished) that may exist at once
MaxTasks == 2
\* fragments of one text handed to a synthesis pipeline
MaxFrags == 4
\* characters of a text handed to split_text_into_chunks
MaxText == 6
\* largest chunk_size of an AWSPollyTTS
MaxChunkSize == 3
\* completion calls made on one client
MaxCalls == 12
MaxMarked == 2

\* ---------------------------------------------------------- constants
Users == {"u1"}
\* the connections and the user ids their clients may put in the URL
Conns == {"c1", "c2"}
Ids == {"u1", "u2"}
TaskIds == 1..MaxTasks
\* conversation_history is cut to its last 10 entries (llm.py:75)
HistoryCap == 10
\* LLMProcessor and LanguageModelProcessor keep the last 20 entries
\* (Voice_Bot.py:146, Chat_Bot.py:55)
LongHistoryCap == 20
\* the largest number of send_message calls between two suspension points
\* (process_audio after the completion call: bot_text, status, error, completed)
MaxSends == 4
\* every string of timeout_responses is shorter than chunk_size = 200, so
\* split_text_into_chunks returns it as one fragment
PoolChunks == 1
\* audio_queue = asyncio.Queue(maxsize=3) (aws_tts.py:143)
QueueMaxSize == 3

VARIABLES
    active_connections,   \* set of user ids with a registered websocket
    user_sessions,        \* user id -> session record
    user_llm_clients,     \* user id -> [hist, completed] of its OpenRouterClient
    user_timeout_tasks,   \* user id -> task handle (0: a task that has finished)
    user_timeout_active,  \* user id -> BOOLEAN
    user_timeout_stage,   \* user id -> 0..3
    tasks,                \* task id -> _timeout_handler task
    epc,                  \* user id -> where the endpoint coroutine is suspended
    sent,                 \* outbound events of the last step, in order
    attempts,             \* send_message calls of the last step and how they
                          \* went, in order (observation only)
    act,                  \* the last step taken (observation only)
    logging,              \* whether log is kept (pipeline specification only)
    log,                  \* synthesis calls and outbound events, in order
    \* AWSPollyTTS.speak
    mode,                 \* which delivery discipline the pipeline run uses
    nfrag,                \* number of fragments of the text of the pipeline run
    audio_queue,          \* fragment indices synthesized and not yet taken
    synthesis_done,       \* the asyncio.Event
    ppc, pidx,            \* synthesizer(): suspension point and loop index
    cpc, citem,           \* player(): suspension point and the unit in hand
    played,               \* fragment indices handed to play_audio_chunk, in order
    synthesized,          \* fragment indices synthesize_chunk returned audio for
    \* AWSPollyTTS.split_text_into_chunks
    in_text,              \* the text argument, a sequence of characters
    chunk_size,           \* self.chunk_size
    chunks,               \* the list returned
    split_done,           \* whether the call has returned
    \* one completion client on its own
    conversation_history, \* the list of entries [role, turn, content]
    interview_completed,  \* OpenRouterClient.interview_completed
    hist_cap,             \* the retention cap of the client's class
    n_calls,              \* completion calls made so far
    n_stored,             \* turns stored so far (observation only)
    n_marked,             \* engine replies so far that held the marker
    hist_ret,             \* what the last completion call returned
    \* connections whose clients choose the user id
    conns,                \* connection -> [pc, user] of its endpoint coroutine
    websocket_of,         \* user id -> the connection active_connections holds
    \* uploads
    cv_sessions,          \* session_id -> [cv_text, old] of an upload
    uploaded,             \* documents uploaded so far (observation only)
    received,             \* connection -> document its session was given
    presented,            \* connection -> whether the session_id of its query
                          \* string named an upload older than an hour
    \* DeepgramSTT.transcribe_audio_bytes
    stt_engine,           \* configuration -> what the engine does with the audio
    stt_pc,               \* "idle", "try" (an attempt is awaited), "done"
    stt_k,                \* position in configurations of the attempt awaited
    stt_tried,            \* names of the configurations tried, in order
    stt_result            \* the value returned

sessionVars == <<active_connections, user_sessions, user_llm_clients,
                 user_timeout_tasks, user_timeout_active, user_timeout_stage,
                 tasks, epc, sent, attempts, act, log>>
connVars == <<conns, websocket_of>>
uploadVars == <<cv_sessions, uploaded, received, presented>>
sttVars == <<stt_engine, stt_pc, stt_k, stt_tried, stt_result>>
histVars == <<conversation_history, interview_completed, hist_cap, n_calls,
              n_stored, n_marked, hist_ret>>
chunkVars == <<in_text, chunk_size, chunks, split_done>>
speakVars == <<audio_queue, synthesis_done, ppc, pidx, cpc, citem, played,
               synthesized>>
vars == <<sessionVars, speakVars, logging, mode, nfrag, sttVars, chunkVars, histVars,
          connVars, uploadVars>>

\* ------------------------------------------------------ dictionaries
EmptyMap == [x \in {} |-> 0]
Get(f, k, d) == IF k \in DOMAIN f THEN f[k] ELSE d
Put(f, k, v) == [x \in (DOMAIN f) \cup {k} |-> IF x = k THEN v ELSE f[x]]
Del(f, k) == [x \in (DOMAIN f) \ {k} |-> f[x]]

Ev(type, arg) == [type |-> type, arg |-> arg]

\* an audio_chunk event whose total_chunks counts the fragments still to come
AudioChunk_CountsRemaining(i, n) ==
    [type |-> "audio_chunk", arg |-> i, total |-> n - i]

\* the audio_chunk event of fragment i of n (websocket_api.py 538-543): arg
\* is its chunk_index, total its total_chunks
AudioChunk(i, n) == [type |-> "audio_chunk", arg |-> i, total |-> n]

\* stale is observation only, kept when mode is "tracked": the task was alive
\* when disconnect() removed the session of its user
FreeTask == [pc |-> "free", user |-> "none", stage |-> 0, i |-> 0, n |-> 0,
             cancelled |-> FALSE, stale |-> FALSE]
NewSession == [cv_text |-> "None", candidate_info |-> "None"]
NewClient == [hist |-> 0, completed |-> FALSE]

\* The program state threaded through the statements of one step.  budget is
\* the number of send_text calls that still succeed in this step.
State(f) ==
    [active_connections |-> active_connections, user_sessions |-> user_sessions,
     user_llm_clients |-> user_llm_clients, user_timeout_tasks |-> user_timeout_tasks,
     user_timeout_active |-> user_timeout_active,
     user_timeout_stage |-> user_timeout_stage,
     tasks |-> tasks, sent |-> <<>>, attempts |-> <<>>, trace |-> <<>>,
     budget |-> f]

CommitSession(s) ==
    /\ active_connections' = s.active_connections
    /\ user_sessions' = s.user_sessions
    /\ user_llm_clients' = s.user_llm_clients
    /\ user_timeout_tasks' = s.user_timeout_tasks
    /\ user_timeout_active' = s.user_timeout_active
    /\ user_timeout_stage' = s.user_timeout_stage
    /\ tasks' = s.tasks
    /\ sent' = s.sent
    /\ attempts' = s.attempts
    /\ log' = IF logging THEN log \o s.trace ELSE log
    /\ UNCHANGED <<speakVars, logging, mode, nfrag, sttVars, chunkVars, histVars>>

\* the same for a step that leaves the uploads alone
CommitRegistry(s) == CommitSession(s) /\ UNCHANGED uploadVars

\* the same for a step of the one endpoint a user id has in Spec
Commit(s) == CommitRegistry(s) /\ UNCHANGED connVars

\* ------------------------------------------------------------- tasks
\* Task.cancel(): no effect on a finished task; otherwise CancelledError is
\* thrown into the coroutine when it next resumes.
CancelTask(s, t) ==
    IF t = 0 \/ s.tasks[t].pc = "free" THEN s
    ELSE [s EXCEPT !.tasks[t].cancelled = TRUE]

\* the coroutine of task t returns: handles that point to it become handles
\* of a finished task
FinishTask(s, t) ==
    [s EXCEPT !.tasks[t] = FreeTask,
              !.user_timeout_tasks =
                  [u \in DOMAIN s.user_timeout_tasks |->
                      IF s.user_timeout_tasks[u] = t THEN 0
                      ELSE s.user_timeout_tasks[u]]]

FreeIds(ts) == {t \in TaskIds : ts[t].pc = "free"}
NextId(ts) == CHOOSE t \in FreeIds(ts) : \A o \in FreeIds(ts) : t <= o

\* asyncio.create_task(self._timeout_handler(user_id)): the coroutine has not
\* run yet
CreateTask(s, u) ==
    LET t == NextId(s.tasks) IN
    [s EXCEPT !.tasks[t] = [pc |-> "start", user |-> u, stage |-> 0, i |-> 0,
                            n |-> PoolChunks, cancelled |-> FALSE,
                            stale |-> FALSE],
              !.user_timeout_tasks = Put(s.user_timeout_tasks, u, t)]

\* ---------------------------------------------------- session methods
Disconnect(s, u) ==
    LET s1 == IF u \in DOMAIN s.user_timeout_tasks
              THEN CancelTask(s, s.user_timeout_tasks[u]) ELSE s
    IN [s1 EXCEPT !.tasks = [t \in TaskIds |->
                                IF mode = "tracked" /\ s1.tasks[t].user = u
                                THEN [s1.tasks[t] EXCEPT !.stale = TRUE]
                                ELSE s1.tasks[t]],
                  !.active_connections = @ \ {u},
                  !.user_sessions = Del(@, u),
                  !.user_llm_clients = Del(@, u),
                  !.user_timeout_tasks = Del(@, u),
                  !.user_timeout_active = Del(@, u),
                  !.user_timeout_stage = Del(@, u)]

\* send_message noted in attempts: "noop" when the user is not registered,
\* "failed" when send_text raises, "sent" otherwise
Attempt(s, u, m, r) ==
    [s EXCEPT !.attempts = Append(@, [user |-> u, ev |-> m, result |-> r])]

\* send_message whose except clause only reports the error
SendMessage_KeepsSession(s, u, m) ==
    IF u \notin s.active_connections THEN Attempt(s, u, m, "noop")
    ELSE IF s.budget = 0 THEN Attempt(s, u, m, "failed")
    ELSE [Attempt(s, u, m, "sent") EXCEPT !.sent = Append(@, m),
                                          !.trace = Append(@, m),
                                          !.budget = @ - 1]

SendMessage(s, u, m) ==
    IF u \notin s.active_connections THEN Attempt(s, u, m, "noop")
    ELSE IF s.budget = 0 THEN Disconnect(Attempt(s, u, m, "failed"), u)
    ELSE [Attempt(s, u, m, "sent") EXCEPT !.sent = Append(@, m),
                                          !.trace = Append(@, m),
                                          !.budget = @ - 1]

\* cancel_response_timeout that resets the flags and forgets task.cancel()
CancelResponseTimeout_FlagsOnly(s, u) ==
    [s EXCEPT !.user_timeout_active = Put(@, u, FALSE),
              !.user_timeout_stage = Put(@, u, 0)]

CancelResponseTimeout(s, u) ==
    LET s1 == [s EXCEPT !.user_timeout_active = Put(@, u, FALSE),
                        !.user_timeout_stage = Put(@, u, 0)]
    IN IF u \in DOMAIN s1.user_timeout_tasks
       THEN LET s2 == CancelTask(s1, s1.user_timeout_tasks[u])
            IN [s2 EXCEPT !.user_timeout_tasks = Del(@, u)]
       ELSE s1

\* start_response_timeout that raises the flag and creates no task
StartResponseTimeout_NoTask(s, u) ==
    IF Get(s.user_timeout_active, u, FALSE) THEN s
    ELSE [s EXCEPT !.user_timeout_active = Put(@, u, TRUE),
                   !.user_timeout_stage = Put(@, u, 1)]

StartResponseTimeout(s, u) ==
    IF Get(s.user_timeout_active, u, FALSE) THEN s
    ELSE LET s1 == IF u \in DOMAIN s.user_timeout_tasks
                   THEN CancelTask(s, s.user_timeout_tasks[u]) ELSE s
             s2 == [s1 EXCEPT !.user_timeout_active = Put(@, u, TRUE),
                              !.user_timeout_stage = Put(@, u, 1)]
         IN CreateTask(s2, u)

\* cleanup_old_cv_sessions, the part on the completion clients
CleanupInactiveClients(s) ==
    [s EXCEPT !.user_llm_clients =
        [u \in (DOMAIN s.user_llm_clients) \cap s.active_connections |->
            s.user_llm_clients[u]]]

GetUserLlmClient(s, u) ==
    IF u \in DOMAIN s.user_llm_clients THEN s
    ELSE [s EXCEPT !.user_llm_clients = Put(@, u, NewClient)]

Min(a, b) == IF a < b THEN a ELSE b

\* OpenRouterClient.chat_completion on client record c; outcome is what the
\* engine does: "ok" a reply, "end" a reply opening with [INTERVIEW_END],
\* "fail" the call raises
ChatCompletion(c, outcome) ==
    IF c.completed \/ outcome = "fail" THEN c
    ELSE [hist |-> Min(c.hist + 2, HistoryCap),
          completed |-> (outcome = "end")]

\* the completion call returns to a coroutine that holds the client object;
\* the dictionary shows the change only while it still holds that object
ApplyCompletion(s, u, outcome) ==
    IF u \in DOMAIN s.user_llm_clients
    THEN [s EXCEPT !.user_llm_clients[u] = ChatCompletion(@, outcome)]
    ELSE s

\* _synthesize_and_send_audio on the value chat_completion returned, the
\* pair (text, ended): split_text_into_chunks calls text.strip(), the
\* AttributeError is caught and reported as a speech synthesis error
SynthesizeReply(s, u) == SendMessage(s, u, Ev("error", 2))

\* a turn that arms the watchdog itself once its audio is sent (the call
\* start_interview and process_audio leave commented out)
ReplyTurn_ArmsWatchdog(s, u) ==
    LET s1 == SendMessage(s, u, Ev("bot_text", 0))
        s2 == SendMessage(s1, u, Ev("status", 0))
        s3 == SynthesizeReply(s2, u)
        s4 == SendMessage(s3, u, Ev("completed", 0))
    IN IF FreeIds(s4.tasks) = {} THEN s4 ELSE StartResponseTimeout(s4, u)

\* the part of a turn after the completion call: start_interview 357-373,
\* process_audio 492-510
ReplyTurn(s, u) ==
    LET s1 == SendMessage(s, u, Ev("bot_text", 0))
        s2 == SendMessage(s1, u, Ev("status", 0))
        s3 == SynthesizeReply(s2, u)
    IN SendMessage(s3, u, Ev("completed", 0))


\* -------------------------------------------------- _timeout_handler
\* first run of the coroutine: reads the stage, then sleeps (207-221)
TimeoutStart(s, t) ==
    [s EXCEPT !.tasks[t].stage = Get(s.user_timeout_stage, s.tasks[t].user, 1),
              !.tasks[t].pc = "sleep"]

\* lines 252-270, after _synthesize_and_send_audio has returned
AfterAudio(s, t) ==
    LET u == s.tasks[t].user
        stage == s.tasks[t].stage
    IN IF stage = 3
       THEN LET s1 == SendMessage(s, u, Ev("interview_ended", 0))
            IN FinishTask(Disconnect(s1, u), t)
       ELSE LET s1 == SendMessage(s, u, Ev("completed", 0))
                s2 == [s1 EXCEPT !.user_timeout_stage = Put(@, u, stage + 1)]
            IN FinishTask(s2, t)

\* _synthesize_and_send_audio, the for loop at fragment i (532-534): the next
\* suspension is the synthesis call for fragment i, or the loop is over
SynthLoop(s, t, i) ==
    IF i < s.tasks[t].n
    THEN [s EXCEPT !.tasks[t].pc = "synth", !.tasks[t].i = i]
    ELSE AfterAudio(s, t)

\* a loop that gives up at the first fragment whose synthesis fails
SynthReturn_AbortOnFailure(s, t, ok) ==
    LET u == s.tasks[t].user
        i == s.tasks[t].i
        s0 == [s EXCEPT !.trace =
                  Append(@, Ev(IF ok THEN "synth_ok" ELSE "synth_none", i))]
    IN IF ok
       THEN LET s1 == SendMessage(s0, u, AudioChunk(i, s.tasks[t].n))
            IN [s1 EXCEPT !.tasks[t].pc = "pace"]
       ELSE AfterAudio(s0, t)

\* synthesize_chunk returns audio (ok) or None (535-546)
SynthReturn(s, t, ok) ==
    LET u == s.tasks[t].user
        i == s.tasks[t].i
        s0 == [s EXCEPT !.trace =
                  Append(@, Ev(IF ok THEN "synth_ok" ELSE "synth_none", i))]
    IN IF ok
       THEN LET s1 == SendMessage(s0, u, AudioChunk(i, s.tasks[t].n))
            IN [s1 EXCEPT !.tasks[t].pc = "pace"]
       ELSE SynthLoop(s0, t, i + 1)

\* asyncio.sleep(0.1) returns
PaceReturn(s, t) == SynthLoop(s, t, s.tasks[t].i + 1)

\* except asyncio.CancelledError / except Exception (275-282)
TimeoutExcept(s, t) ==
    LET u == s.tasks[t].user
        s1 == [s EXCEPT !.user_timeout_active = Put(@, u, FALSE),
                        !.user_timeout_stage = Put(@, u, 0)]
    IN FinishTask(s1, t)

\* a handler that records its reminder in the history of the session
TimeoutFire_RecordsReminder(s, t) ==
    LET u == s.tasks[t].user
        stage == s.tasks[t].stage
    IN IF ~Get(s.user_timeout_active, u, FALSE) THEN FinishTask(s, t)
       ELSE IF stage \notin 1..3 THEN TimeoutExcept(s, t)
       ELSE LET s0 == ApplyCompletion(s, u, "ok")
                s1 == SendMessage(s0, u, Ev("bot_text", stage))
                s2 == SendMessage(s1, u, Ev("status", 0))
            IN SynthLoop(s2, t, 0)

\* asyncio.sleep(wait_time) returns (223-250)
TimeoutFire(s, t) ==
    LET u == s.tasks[t].user
        stage == s.tasks[t].stage
    IN IF ~Get(s.user_timeout_active, u, FALSE) THEN FinishTask(s, t)
       ELSE IF stage \notin 1..3 THEN TimeoutExcept(s, t)
       ELSE LET s1 == SendMessage(s, u, Ev("bot_text", stage))
                s2 == SendMessage(s1, u, Ev("status", 0))
            IN SynthLoop(s2, t, 0)

\* CancelledError reaches the coroutine when it resumes; a coroutine that
\* never ran ends without entering its try block
TimeoutCancelled(s, t) ==
    IF s.tasks[t].pc = "start" THEN FinishTask(s, t) ELSE TimeoutExcept(s, t)

\* ------------------------------------------------ websocket_endpoint
\* connect(), then start_interview up to the completion call (284-354)
ConnectSession(s, u) ==
    LET s1 == [s EXCEPT !.active_connections = @ \cup {u},
                        !.user_sessions = Put(@, u, NewSession)]
        s2 == CleanupInactiveClients(s1)
        s3 == SendMessage(s2, u, Ev("connected", 0))
    IN GetUserLlmClient(s3, u)

\* process_audio up to the transcription call (423-428)
ProcessAudioBegin(s, u) == SendMessage(s, u, Ev("status", 0))

\* process_audio without the early return for an empty transcript
ProcessAudioTranscript_NoEarlyReturn(s, u, text) ==
    LET s0 == IF text = "empty" THEN SendMessage(s, u, Ev("status", 1)) ELSE s
        s1 == CancelResponseTimeout(s0, u)
        s2 == SendMessage(s1, u, Ev("user_text", 0))
        s3 == SendMessage(s2, u, Ev("status", 0))
    IN IF u \in DOMAIN s3.user_sessions
       THEN [st |-> GetUserLlmClient(s3, u), pc |-> "llm"]
       ELSE [st |-> SendMessage(s3, u, Ev("error", 1)), pc |-> "recv"]

\* process_audio from the transcript to the completion call (431-486);
\* pc is where the endpoint suspends next
ProcessAudioTranscript(s, u, text) ==
    IF text = "empty"
    THEN [st |-> SendMessage(s, u, Ev("status", 1)), pc |-> "recv"]
    ELSE LET s1 == CancelResponseTimeout(s, u)
             s2 == SendMessage(s1, u, Ev("user_text", 0))
             s3 == SendMessage(s2, u, Ev("status", 0))
         IN IF u \in DOMAIN s3.user_sessions
            THEN [st |-> GetUserLlmClient(s3, u), pc |-> "llm"]
            ELSE \* bot_response is unbound at line 488: caught at 517
                 [st |-> SendMessage(s3, u, Ev("error", 1)), pc |-> "recv"]

\* the audio_playback_complete branch (643-668); pc "idle": the endpoint
\* function returns
PlaybackComplete(s, u) ==
    IF Get(s.user_timeout_active, u, FALSE)
    THEN IF Get(s.user_timeout_stage, u, 1) > 3
         THEN [st |-> s, pc |-> "idle"]
         ELSE LET s1 == [s EXCEPT !.user_timeout_active = Put(@, u, FALSE)]
                  s2 == CreateTask(s1, u)
              IN [st |-> [s2 EXCEPT !.user_timeout_active = Put(@, u, TRUE)],
                  pc |-> "recv"]
    ELSE [st |-> StartResponseTimeout(s, u), pc |-> "recv"]

\* ------------------------------------------------------------ actions
Budgets == 0..MaxSends
\* the same for a step that calls send_message at most k times
SendBudgets(k) == 0..Min(k, MaxSends)
Outcomes == {"ok", "end", "fail"}

\* what the transcription engine does: no speech found, a transcript, or the
\* call raises
SttOutcomes == {"empty", "text", "raise"}

\* DeepgramSTT.transcribe_audio_bytes: the except clause returns ""
TranscribeAudioBytes(o) == IF o = "raise" THEN "empty" ELSE o

\* a task that was created or cancelled runs before the endpoint resumes:
\* both are scheduled with call_soon, the endpoint resumes on later input
Quiet == \A t \in TaskIds : tasks[t].pc # "start" /\ ~tasks[t].cancelled

Connect(u) ==
    /\ epc[u] = "idle" /\ Quiet
    /\ \E f \in SendBudgets(1) : Commit(ConnectSession(State(f), u))
    /\ epc' = [epc EXCEPT ![u] = "greet"]
    /\ act' = "connect"

GreetReturn(u) ==
    /\ epc[u] = "greet" /\ Quiet
    /\ \E f \in Budgets, o \in Outcomes :
          Commit(ReplyTurn(ApplyCompletion(State(f), u, o), u))
    /\ epc' = [epc EXCEPT ![u] = "recv"]
    /\ act' = "greeted"

\* a message arrives after the session was removed: break (618-620)
RecvAfterTeardown(u) ==
    /\ epc[u] = "recv" /\ Quiet /\ u \notin active_connections
    /\ Commit(State(0))
    /\ epc' = [epc EXCEPT ![u] = "idle"]
    /\ act' = "break"

\* an endpoint that starts process_audio for a message whatever it is doing
RecvAudio_Unawaited(u) ==
    /\ epc[u] \in {"recv", "stt", "llm"} /\ Quiet /\ u \in active_connections
    /\ \E f \in SendBudgets(1) : Commit(ProcessAudioBegin(State(f), u))
    /\ epc' = [epc EXCEPT ![u] = "stt"]
    /\ act' = "audio"

RecvAudio(u) ==
    /\ epc[u] = "recv" /\ Quiet /\ u \in active_connections
    /\ \E f \in SendBudgets(1) : Commit(ProcessAudioBegin(State(f), u))
    /\ epc' = [epc EXCEPT ![u] = "stt"]
    /\ act' = "audio"

\* base64.b64decode raises (631-636)
RecvAudioBad(u) ==
    /\ epc[u] = "recv" /\ Quiet /\ u \in active_connections
    /\ \E f \in SendBudgets(1) : Commit(SendMessage(State(f), u, Ev("error", 0)))
    /\ UNCHANGED epc
    /\ act' = "audio_bad"

SttReturn(u) ==
    /\ epc[u] = "stt" /\ Quiet
    /\ \E f \in SendBudgets(3), o \in SttOutcomes :
          LET r == ProcessAudioTranscript(State(f), u, TranscribeAudioBytes(o))
          IN /\ Commit(r.st)
             /\ epc' = [epc EXCEPT ![u] = r.pc]
             /\ act' = IF o = "raise" THEN "stt_raise"
                       ELSE IF o = "empty" THEN "stt_empty" ELSE "stt_text"

LlmReturn(u) ==
    /\ epc[u] = "llm" /\ Quiet
    /\ \E f \in Budgets, o \in Outcomes :
          /\ Commit(ReplyTurn(ApplyCompletion(State(f), u, o), u))
          /\ act' = IF o = "fail" THEN "reply_failed" ELSE "replied"
    /\ epc' = [epc EXCEPT ![u] = "recv"]

\* a ping branch that also treats the message as user activity
RecvPing_CancelsWatchdog(u) ==
    /\ epc[u] = "recv" /\ Quiet /\ u \in active_connections
    /\ \E f \in SendBudgets(1) :
          Commit(SendMessage(CancelResponseTimeout(State(f), u), u,
                             Ev("pong", 0)))
    /\ UNCHANGED epc
    /\ act' = "ping"

RecvPing(u) ==
    /\ epc[u] = "recv" /\ Quiet /\ u \in active_connections
    /\ \E f \in SendBudgets(1) : Commit(SendMessage(State(f), u, Ev("pong", 0)))
    /\ UNCHANGED epc
    /\ act' = "ping"

RecvPlaybackComplete(u) ==
    /\ epc[u] = "recv" /\ Quiet /\ u \in active_connections
    /\ FreeIds(tasks) # {}
    /\ LET r == PlaybackComplete(State(0), u)
       IN /\ Commit(r.st)
          /\ epc' = [epc EXCEPT ![u] = r.pc]
    /\ act' = "playback_complete"

\* receive_text raises WebSocketDisconnect, or the message is not JSON (670-674)
RecvClose(u) ==
    /\ epc[u] = "recv" /\ Quiet
    /\ Commit(Disconnect(State(0), u))
    /\ epc' = [epc EXCEPT ![u] = "idle"]
    /\ act' = "close"

TaskStart(t) ==
    /\ tasks[t].pc = "start" /\ ~tasks[t].cancelled
    /\ Commit(TimeoutStart(State(0), t))
    /\ UNCHANGED epc
    /\ act' = "start"

TaskFire(t) ==
    /\ tasks[t].pc = "sleep" /\ ~tasks[t].cancelled
    /\ \E f \in SendBudgets(3) : Commit(TimeoutFire(State(f), t))
    /\ UNCHANGED epc
    /\ act' = "fire"

TaskSynth(t) ==
    /\ tasks[t].pc = "synth" /\ ~tasks[t].cancelled
    /\ \E f \in SendBudgets(1), ok \in BOOLEAN :
          Commit(SynthReturn(State(f), t, ok))
    /\ UNCHANGED epc
    /\ act' = "synth"

TaskPace(t) ==
    /\ tasks[t].pc = "pace" /\ ~tasks[t].cancelled
    /\ \E f \in SendBudgets(1) : Commit(PaceReturn(State(f), t))
    /\ UNCHANGED epc
    /\ act' = "pace"

TaskCancelled(t) ==
    /\ tasks[t].pc # "free" /\ tasks[t].cancelled
    /\ Commit(TimeoutCancelled(State(0), t))
    /\ UNCHANGED epc
    /\ act' = "cancelled"

\* --------------------------------------------------- AWSPollyTTS.speak
SpeakIdle ==
    /\ audio_queue = <<>>
    /\ synthesis_done = FALSE
    /\ ppc = "idle" /\ pidx = 0
    /\ cpc = "idle" /\ citem = 0
    /\ played = <<>>
    /\ synthesized = <<>>

\* a synthesizer() without the finally clause that sets the event
ProdLoop_NoSignal(i) ==
    IF i < nfrag
    THEN /\ ppc' = "synth" /\ pidx' = i /\ UNCHANGED synthesis_done
    ELSE /\ ppc' = "done" /\ pidx' = i /\ UNCHANGED synthesis_done

\* synthesizer(): the for loop at fragment i (151-153), finally at 161
ProdLoop(i) ==
    IF i < nfrag
    THEN /\ ppc' = "synth" /\ pidx' = i /\ UNCHANGED synthesis_done
    ELSE /\ ppc' = "done" /\ pidx' = i /\ synthesis_done' = TRUE

\* a put that places the unit at the head of the queue
QueuePut_AtHead(q, x) == <<x>> \o q

\* audio_queue.put(audio_data) on a queue with room
QueuePut(q, x) == Append(q, x)

\* a queue that always has room
QueueFull_Never(q) == FALSE

\* asyncio.Queue(maxsize=3).full()
QueueFull(q) == Len(q) >= QueueMaxSize

\* asyncio.create_task(synthesizer()), asyncio.create_task(player()) and the
\* first run of both (191-192)
SpeakStart ==
    /\ mode = "overlapped" /\ ppc = "idle"
    /\ ProdLoop(0)
    /\ cpc' = "get"
    /\ UNCHANGED <<audio_queue, citem, played, synthesized>>
    /\ UNCHANGED <<sessionVars, logging, mode, nfrag, sttVars, chunkVars, histVars, connVars,
                   uploadVars>>

\* synthesize_chunk returns audio or None (153-157); with a full queue the
\* put suspends
ProdSynth ==
    /\ ppc = "synth"
    /\ \E ok \in BOOLEAN :
          IF ok
          THEN /\ synthesized' = Append(synthesized, pidx)
               /\ IF ~QueueFull(audio_queue)
                  THEN /\ audio_queue' = QueuePut(audio_queue, pidx)
                       /\ ProdLoop(pidx + 1)
                  ELSE /\ ppc' = "put"
                       /\ UNCHANGED <<audio_queue, pidx, synthesis_done>>
          ELSE /\ ProdLoop(pidx + 1)
               /\ UNCHANGED <<audio_queue, synthesized>>
    /\ UNCHANGED <<cpc, citem, played>>
    /\ UNCHANGED <<sessionVars, logging, mode, nfrag, sttVars, chunkVars, histVars, connVars,
                   uploadVars>>

\* the suspended put resumes once the player has taken a unit
ProdPut ==
    /\ ppc = "put" /\ ~QueueFull(audio_queue)
    /\ audio_queue' = QueuePut(audio_queue, pidx)
    /\ ProdLoop(pidx + 1)
    /\ UNCHANGED <<cpc, citem, played, synthesized>>
    /\ UNCHANGED <<sessionVars, logging, mode, nfrag, sttVars, chunkVars, histVars, connVars,
                   uploadVars>>

\* wait_for(audio_queue.get(), 1.0) returns a unit (170-177)
ConsGet ==
    /\ cpc = "get" /\ audio_queue # <<>>
    /\ citem' = Head(audio_queue)
    /\ audio_queue' = Tail(audio_queue)
    /\ cpc' = "play"
    /\ UNCHANGED <<synthesis_done, ppc, pidx, played, synthesized>>
    /\ UNCHANGED <<sessionVars, logging, mode, nfrag, sttVars, chunkVars, histVars, connVars,
                   uploadVars>>

\* a player that leaves as soon as it finds the queue empty
PlayerTimeout_IgnoresSignal(done, q) == IF q = <<>> THEN "done" ELSE "get"

\* the queue stayed empty for the timeout (181-185)
PlayerTimeout(done, q) == IF done /\ q = <<>> THEN "done" ELSE "get"

ConsTimeout ==
    /\ cpc = "get" /\ audio_queue = <<>>
    /\ cpc' = PlayerTimeout(synthesis_done, audio_queue)
    /\ UNCHANGED <<audio_queue, synthesis_done, ppc, pidx, citem, played,
                   synthesized>>
    /\ UNCHANGED <<sessionVars, logging, mode, nfrag, sttVars, chunkVars, histVars, connVars,
                   uploadVars>>

\* play_audio_chunk returns in the executor (177-179)
ConsPlayed ==
    /\ cpc = "play"
    /\ played' = Append(played, citem)
    /\ cpc' = "get"
    /\ UNCHANGED <<audio_queue, synthesis_done, ppc, pidx, citem, synthesized>>
    /\ UNCHANGED <<sessionVars, logging, mode, nfrag, sttVars, chunkVars, histVars, connVars,
                   uploadVars>>

\* ------------------------------------- AWSPollyTTS.split_text_into_chunks
\* A str is a sequence of one-character strings.
Alphabet == {"a", "b", ".", ",", " "}
IsTerm(c) == c \in {".", "!", "?"}
IsSpace(c) == c = " "

RECURSIVE LStrip(_)
LStrip(s) == IF s # <<>> /\ IsSpace(s[1]) THEN LStrip(Tail(s)) ELSE s

RECURSIVE RStrip(_)
RStrip(s) ==
    IF s # <<>> /\ IsSpace(s[Len(s)]) THEN RStrip(SubSeq(s, 1, Len(s) - 1)) ELSE s

\* str.strip()
Strip(s) == RStrip(LStrip(s))

\* the first index from i on whose character is not a terminator / not a space
RECURSIVE SkipTerm(_, _)
SkipTerm(s, i) == IF i <= Len(s) /\ IsTerm(s[i]) THEN SkipTerm(s, i + 1) ELSE i

RECURSIVE SkipSpace(_, _)
SkipSpace(s, i) == IF i <= Len(s) /\ IsSpace(s[i]) THEN SkipSpace(s, i + 1) ELSE i

\* re.split(r'[.!?]+\s*', s) from index i on, cur being the piece in hand
RECURSIVE ReSplitFrom(_, _, _)
ReSplitFrom(s, i, cur) ==
    IF i > Len(s) THEN <<cur>>
    ELSE IF IsTerm(s[i])
         THEN <<cur>> \o ReSplitFrom(s, SkipSpace(s, SkipTerm(s, i)), <<>>)
         ELSE ReSplitFrom(s, i + 1, Append(cur, s[i]))

ReSplit(s) == ReSplitFrom(s, 1, <<>>)

\* s.split(', ') from index i on
RECURSIVE CommaSplitFrom(_, _, _)
CommaSplitFrom(s, i, cur) ==
    IF i > Len(s) THEN <<cur>>
    ELSE IF i < Len(s) /\ s[i] = "," /\ s[i + 1] = " "
         THEN <<cur>> \o CommaSplitFrom(s, i + 2, <<>>)
         ELSE CommaSplitFrom(s, i + 1, Append(cur, s[i]))

CommaSplit(s) == CommaSplitFrom(s, 1, <<>>)

NonEmpty(s) == s # <<>>

\* [s.strip() for s in sentences if s.strip()]
Sentences(txt) ==
    LET raw == ReSplit(Strip(txt))
    IN SelectSeq([k \in 1..Len(raw) |-> Strip(raw[k])], NonEmpty)

\* if current_chunk: chunks.append(current_chunk.strip())
Flush(st) ==
    IF st.current_chunk # <<>>
    THEN [st EXCEPT !.chunks = Append(@, Strip(st.current_chunk))]
    ELSE st

\* the body of "for part in parts" (62-67)
AddPart(st, part, size) ==
    IF Len(st.current_chunk \o part) > size
    THEN [Flush(st) EXCEPT !.current_chunk = part \o <<",", " ">>]
    ELSE [st EXCEPT !.current_chunk = @ \o part \o <<",", " ">>]

RECURSIVE AddParts(_, _, _)
AddParts(st, parts, size) ==
    IF parts = <<>> THEN st
    ELSE AddParts(AddPart(st, Head(parts), size), Tail(parts), size)

\* a loop body that forgets the chunk in hand when the sentence does not fit
AddSentence_DropsChunk(st, sentence, size) ==
    IF Len(sentence) > size
    THEN AddParts([Flush(st) EXCEPT !.current_chunk = <<>>],
                  CommaSplit(sentence), size)
    ELSE IF Len(st.current_chunk \o sentence) > size
         THEN [st EXCEPT !.current_chunk = sentence \o <<".", " ">>]
         ELSE [st EXCEPT !.current_chunk = @ \o sentence \o <<".", " ">>]

\* the body of "for sentence in sentences" (51-75)
AddSentence(st, sentence, size) ==
    IF Len(sentence) > size
    THEN AddParts([Flush(st) EXCEPT !.current_chunk = <<>>],
                  CommaSplit(sentence), size)
    ELSE IF Len(st.current_chunk \o sentence) > size
         THEN [Flush(st) EXCEPT !.current_chunk = sentence \o <<".", " ">>]
         ELSE [st EXCEPT !.current_chunk = @ \o sentence \o <<".", " ">>]

RECURSIVE AddSentences(_, _, _)
AddSentences(st, sentences, size) ==
    IF sentences = <<>> THEN st
    ELSE AddSentences(AddSentence(st, Head(sentences), size),
                      Tail(sentences), size)

SplitTextIntoChunks(txt, size) ==
    LET st == AddSentences([chunks |-> <<>>, current_chunk |-> <<>>],
                           Sentences(txt), size)
    IN IF Strip(st.current_chunk) # <<>>
       THEN Append(st.chunks, Strip(st.current_chunk))
       ELSE st.chunks

ChunkIdle ==
    /\ in_text = <<>>
    /\ chunk_size = 1
    /\ chunks = <<>>
    /\ split_done = FALSE

\* tts.split_text_into_chunks(text) is called and returns
SplitText ==
    /\ ~split_done
    /\ chunks' = SplitTextIntoChunks(in_text, chunk_size)
    /\ split_done' = TRUE
    /\ UNCHANGED <<in_text, chunk_size>>
    /\ UNCHANGED <<sessionVars, speakVars, logging, mode, nfrag, sttVars, histVars, connVars,
                   uploadVars>>

\* ------------------------------------ endpoints with client-chosen ids
\* websocket_endpoint(websocket, user_id): user_id is the path parameter of
\* the URL, so two connections may carry the same one.  Each connection is
\* followed from its opening to the return of its endpoint ("closed"); of the
\* receive loop's branches the ones that touch the registries are kept
\* (audio_playback_complete, WebSocketDisconnect, the break after teardown).
ConnIdle ==
    /\ conns = [c \in Conns |-> [pc |-> "idle", user |-> "none"]]
    /\ websocket_of = [u \in Ids |-> "none"]
    /\ cv_sessions = EmptyMap
    /\ uploaded = {}
    /\ received = [c \in Conns |-> "None"]
    /\ presented = [c \in Conns |-> "none"]

ConnAt(c, pc) == conns[c].pc = pc /\ Quiet

ConnGoto(c, pc) ==
    /\ conns' = [conns EXCEPT ![c].pc = pc]
    /\ UNCHANGED <<websocket_of, epc>>

TwoConnect(c, u) ==
    /\ ConnAt(c, "idle")
    /\ \E f \in SendBudgets(1) : CommitRegistry(ConnectSession(State(f), u))
    /\ conns' = [conns EXCEPT ![c] = [pc |-> "greet", user |-> u]]
    /\ websocket_of' = [websocket_of EXCEPT ![u] = c]
    /\ UNCHANGED epc
    /\ act' = "connect"

TwoGreetReturn(c) ==
    /\ ConnAt(c, "greet")
    /\ \E f \in Budgets, o \in Outcomes :
          CommitRegistry(ReplyTurn(ApplyCompletion(State(f), conns[c].user, o),
                                   conns[c].user))
    /\ ConnGoto(c, "recv")
    /\ act' = "greeted"

TwoRecvAfterTeardown(c) ==
    /\ ConnAt(c, "recv") /\ conns[c].user \notin active_connections
    /\ CommitRegistry(State(0))
    /\ ConnGoto(c, "closed")
    /\ act' = "break"

TwoRecvPlaybackComplete(c) ==
    /\ ConnAt(c, "recv") /\ conns[c].user \in active_connections
    /\ FreeIds(tasks) # {}
    /\ LET r == PlaybackComplete(State(0), conns[c].user)
       IN /\ CommitRegistry(r.st)
          /\ ConnGoto(c, IF r.pc = "idle" THEN "closed" ELSE r.pc)
    /\ act' = "playback_complete"

TwoRecvClose(c) ==
    /\ ConnAt(c, "recv")
    /\ CommitRegistry(Disconnect(State(0), conns[c].user))
    /\ ConnGoto(c, "closed")
    /\ act' = "close"

\* ------------------------------- DeepgramSTT.transcribe_audio_bytes
\* configurations, in the order of the list (111-115)
Configurations == <<"short_phrase", "standard", "minimal">>

\* transcripts the engine may return
Transcripts == {"hello", "yeah"}

\* what one transcribe_file call does: it raises, answers without results,
\* answers with a transcript of white space, or with a transcript
EngineOutcomes == {"raise", "none", "blank"} \cup Transcripts

\* _post_process_transcript on the transcripts above: 'yeah' is a short
\* phrase of the corrections table, 'hello' is left alone (194-224)
PostProcessTranscript(tr) == IF tr = "yeah" THEN "yes" ELSE tr

\* a _try_transcription without its except clause
TryTranscription_Propagates(o) ==
    IF o = "raise" THEN [raised |-> TRUE, text |-> ""]
    ELSE IF o \in {"none", "blank"} THEN [raised |-> FALSE, text |-> ""]
    ELSE [raised |-> FALSE, text |-> o]

\* _try_transcription (160-184): the stripped transcript, "" without
\* results, "" when anything raises
TryTranscription(o) ==
    IF o \in {"raise", "none", "blank"} THEN [raised |-> FALSE, text |-> ""]
    ELSE [raised |-> FALSE, text |-> o]

SttIdle ==
    /\ stt_engine = [c \in {"short_phrase", "standard", "minimal"} |-> "none"]
    /\ stt_pc = "idle"
    /\ stt_k = 0
    /\ stt_tried = <<>>
    /\ stt_result = ""

\* transcribe_audio_bytes is called: up to the first attempt (103-120)
SttBegin ==
    /\ mode = "stt" /\ stt_pc = "idle"
    /\ stt_pc' = "try"
    /\ stt_k' = 1
    /\ UNCHANGED <<stt_engine, stt_tried, stt_result>>
    /\ UNCHANGED <<sessionVars, speakVars, logging, mode, nfrag, chunkVars,
                   histVars, connVars, uploadVars>>

\* the awaited _try_transcription returns (120-138): break and post-process
\* on a transcript, the next configuration otherwise, "" after the last one;
\* an exception that reaches the outer except ends the call with ""
SttAttempt ==
    /\ stt_pc = "try"
    /\ stt_tried' = Append(stt_tried, Configurations[stt_k])
    /\ LET r == TryTranscription(stt_engine[Configurations[stt_k]])
       IN IF r.raised
          THEN /\ stt_result' = "" /\ stt_pc' = "done" /\ UNCHANGED stt_k
          ELSE IF r.text # ""
          THEN /\ stt_result' = PostProcessTranscript(r.text)
               /\ stt_pc' = "done" /\ UNCHANGED stt_k
          ELSE IF stt_k < Len(Configurations)
          THEN /\ stt_k' = stt_k + 1 /\ UNCHANGED <<stt_pc, stt_result>>
          ELSE /\ stt_result' = "" /\ stt_pc' = "done" /\ UNCHANGED stt_k
    /\ UNCHANGED stt_engine
    /\ UNCHANGED <<sessionVars, speakVars, logging, mode, nfrag, chunkVars,
                   histVars, connVars, uploadVars>>

\* ------------------------------------------------------- uploads
\* POST /upload-cv: a rejected upload stores nothing; an accepted one stores
\* the text and the profile under the session_id made of the second of the
\* upload and the hash of the e-mail address, which a later upload of the
\* same second and address makes again
UploadCv(tok, doc) ==
    /\ doc \notin uploaded
    /\ \E accepted \in BOOLEAN :
          IF accepted
          THEN /\ cv_sessions' = Put(cv_sessions, tok,
                                     [cv_text |-> doc, old |-> FALSE])
               /\ uploaded' = uploaded \cup {doc}
          ELSE UNCHANGED <<cv_sessions, uploaded>>
    /\ UNCHANGED <<sessionVars, speakVars, logging, mode, nfrag, sttVars, chunkVars,
                   histVars, connVars, received, presented>>

\* more than an hour has passed since the upload
CvAge(tok) ==
    /\ tok \in DOMAIN cv_sessions /\ ~cv_sessions[tok].old
    /\ cv_sessions' = [cv_sessions EXCEPT ![tok].old = TRUE]
    /\ UNCHANGED <<sessionVars, speakVars, logging, mode, nfrag, sttVars, chunkVars,
                   histVars, connVars, uploaded, received,
                   presented>>

\* a cleanup that finds no upload old enough
CleanupOldCvSessions_KeepsAll(cv) == cv

\* cleanup_old_cv_sessions, the part on cv_sessions (146-155)
CleanupOldCvSessions(cv) ==
    [k \in {x \in DOMAIN cv : ~cv[x].old} |-> cv[k]]

\* connect(), lines 298-305: the session record takes the upload's text and
\* profile when the session_id of the query string names a stored upload
LoadCv(s, u, cv, tok) ==
    IF tok \in DOMAIN cv /\ u \in DOMAIN s.user_sessions
    THEN [s EXCEPT !.user_sessions[u] =
             [cv_text |-> cv[tok].cv_text, candidate_info |-> cv[tok].cv_text]]
    ELSE s

\* websocket_endpoint with ?session_id=tok ("None": no query parameter) up to
\* the completion call of the greeting
UpConnect(c, u, tok) ==
    /\ ConnAt(c, "idle")
    /\ \E f \in SendBudgets(1) :
          LET cv == CleanupOldCvSessions(cv_sessions)
              s == LoadCv(ConnectSession(State(f), u), u, cv, tok)
          IN /\ CommitSession(s)
             /\ cv_sessions' = cv
             /\ received' = [received EXCEPT ![c] =
                    IF u \in DOMAIN s.user_sessions
                    THEN s.user_sessions[u].cv_text ELSE "None"]
             /\ presented' = [presented EXCEPT ![c] =
                    IF tok \notin DOMAIN cv_sessions THEN "none"
                    ELSE IF cv_sessions[tok].old THEN "expired" ELSE "fresh"]
    /\ conns' = [conns EXCEPT ![c] = [pc |-> "greet", user |-> u]]
    /\ websocket_of' = [websocket_of EXCEPT ![u] = c]
    /\ UNCHANGED <<epc, uploaded>>
    /\ act' = "connect"

\* process_cv_upload(user_id, filename, base64_data, candidate_info) for the
\* session of connection c: doc is the text _extract_pdf_text returns, with
\* nothing extracted the call reports cv_error (559-597)
ProcessCvUpload(s, u, doc, info, extracted) ==
    IF ~extracted THEN SendMessage(s, u, Ev("cv_error", 0))
    ELSE LET s1 == IF u \in DOMAIN s.user_sessions
                   THEN [s EXCEPT !.user_sessions[u] =
                            [cv_text |-> doc, candidate_info |-> info]]
                   ELSE s
         IN SendMessage(s1, u, Ev("cv_uploaded", 0))

UpProcessCvUpload(c, doc) ==
    /\ ConnAt(c, "recv") /\ conns[c].user \in active_connections
    /\ doc \notin uploaded
    /\ \E f \in SendBudgets(1), extracted \in BOOLEAN, info \in {doc, "None"} :
          /\ CommitSession(ProcessCvUpload(State(f), conns[c].user, doc, info,
                                           extracted))
          /\ uploaded' = IF extracted THEN uploaded \cup {doc} ELSE uploaded
    /\ UNCHANGED <<connVars, epc, cv_sessions, received, presented>>
    /\ act' = "cv_upload"

\* ------------------------------------------- conversation_history
\* conversation_history[-cap:] when the list is longer than cap
Trim_KeepsOldest(h, cap) == IF Len(h) > cap THEN SubSeq(h, 1, cap) ELSE h

Trim(h, cap) ==
    IF Len(h) > cap THEN SubSeq(h, Len(h) - cap + 1, Len(h)) ELSE h

\* the two appends of a turn and the cut (llm.py 70-76, Voice_Bot.py 141-147,
\* Chat_Bot.py 50-56); the entries carry the ordinal of the stored turn and
\* the text that is stored, a sequence of words
StoreTurn(h, n, cap, msg) ==
    Trim(h \o <<[role |-> "user", turn |-> n, content |-> <<"u">>],
                [role |-> "assistant", turn |-> n, content |-> msg]>>, cap)

\* the replies of the engine: words, among them the marker [INTERVIEW_END]
Marker == "END"
Replies == {<<"w">>, <<Marker, "w">>, <<"w", Marker>>}

\* client.chat.completions.create: it raises, or returns a reply
EngineResults ==
    {[raised |-> TRUE, content |-> <<>>]}
    \cup {[raised |-> FALSE, content |-> r] : r \in Replies}

\* assistant_message.startswith("[INTERVIEW_END]")
StartsWithMarker(r) == Len(r) > 0 /\ r[1] = Marker

HasMarker(r) == \E i \in 1..Len(r) : r[i] = Marker

\* assistant_message.replace("[INTERVIEW_END]", "").strip()
RemoveMarker(r) == SelectSeq(r, LAMBDA w : w # Marker)

NoReturn == [text |-> "none", ended |-> FALSE, engine |-> "none"]

HistIdle ==
    /\ conversation_history = <<>>
    /\ interview_completed = FALSE
    /\ hist_cap = HistoryCap
    /\ n_calls = 0
    /\ n_stored = 0
    /\ n_marked = 0
    /\ hist_ret = NoReturn

\* the user turn is appended before the engine is called
CompletionCall_StoresFirst(h, completed, cap, n, e) ==
    IF cap = HistoryCap /\ completed
    THEN [history |-> h, completed |-> TRUE, stored |-> FALSE,
          ret |-> [text |-> "closing", ended |-> TRUE, engine |-> "none"]]
    ELSE IF e.raised
    THEN [history |-> h \o <<[role |-> "user", turn |-> n,
                              content |-> <<"u">>]>>,
          completed |-> completed, stored |-> FALSE,
          ret |-> [text |-> "error", ended |-> FALSE, engine |-> "raised"]]
    ELSE [history |-> StoreTurn(h, n, cap, e.content),
          completed |-> completed, stored |-> TRUE,
          ret |-> [text |-> "reply", ended |-> FALSE, engine |-> "replied"]]

\* chat_completion (llm.py 22-81), generate_response (Voice_Bot.py 131-158),
\* process (Chat_Bot.py 40-61) on history h with the engine doing e; n is the
\* ordinal of the turn if it is stored. Only OpenRouterClient (the cap of 10)
\* has the interview_completed flag and looks for the marker. The result is
\* the new history, the new flag and what the call returns: text is
\* "closing" for the fixed closing text, "error" for the error text of the
\* except clause, "reply" for the engine's reply; engine tells what the
\* engine did in the call: "none" when it was not called
CompletionCall(h, completed, cap, n, e) ==
    IF cap = HistoryCap /\ completed
    THEN [history |-> h, completed |-> TRUE, stored |-> FALSE,
          ret |-> [text |-> "closing", ended |-> TRUE, engine |-> "none"]]
    ELSE IF e.raised
    THEN [history |-> h, completed |-> completed, stored |-> FALSE,
          ret |-> [text |-> "error", ended |-> FALSE, engine |-> "raised"]]
    ELSE LET marked == cap = HistoryCap /\ StartsWithMarker(e.content)
             msg == IF marked THEN RemoveMarker(e.content) ELSE e.content
         IN [history |-> StoreTurn(h, n, cap, msg),
             completed |-> (completed \/ marked), stored |-> TRUE,
             ret |-> [text |-> "reply", ended |-> marked,
                     engine |-> "replied"]]

\* chat_completion / generate_response / process is called and returns
HistCall ==
    /\ n_calls < MaxCalls
    /\ n_calls' = n_calls + 1
    /\ \E e \in EngineResults :
          LET r == CompletionCall(conversation_history, interview_completed,
                                  hist_cap, n_stored + 1, e)
              m == IF r.ret.engine = "replied" /\ HasMarker(e.content)
                   THEN 1 ELSE 0
          IN /\ n_marked + m <= MaxMarked
             /\ n_marked' = n_marked + m
             /\ conversation_history' = r.history
             /\ interview_completed' = r.completed
             /\ n_stored' = IF r.stored THEN n_stored + 1 ELSE n_stored
             /\ hist_ret' = r.ret
    /\ UNCHANGED hist_cap
    /\ UNCHANGED <<sessionVars, speakVars, logging, mode, nfrag, sttVars, chunkVars, connVars,
                   uploadVars>>

\* OpenRouterClient.clear_history (llm.py 121-124)
HistClear ==
    /\ hist_cap = HistoryCap
    /\ conversation_history # <<>> \/ interview_completed
    /\ conversation_history' = <<>>
    /\ interview_completed' = FALSE
    /\ hist_ret' = NoReturn
    /\ UNCHANGED <<hist_cap, n_calls, n_stored, n_marked>>
    /\ UNCHANGED <<sessionVars, speakVars, logging, mode, nfrag, sttVars, chunkVars, connVars,
                   uploadVars>>

Init ==
    /\ active_connections = {}
    /\ user_sessions = EmptyMap
    /\ user_llm_clients = EmptyMap
    /\ user_timeout_tasks = EmptyMap
    /\ user_timeout_active = EmptyMap
    /\ user_timeout_stage = EmptyMap
    /\ tasks = [t \in TaskIds |-> FreeTask]
    /\ epc = [u \in Users |-> "idle"]
    /\ sent = <<>>
    /\ attempts = <<>>
    /\ act = "init"
    /\ logging = FALSE
    /\ log = <<>>
    /\ mode = "session"
    /\ nfrag = 0
    /\ SpeakIdle
    /\ ChunkIdle
    /\ HistIdle
    /\ ConnIdle
    /\ SttIdle

Next ==
    \/ \E u \in Users : Connect(u)
    \/ \E u \in Users : GreetReturn(u)
    \/ \E u \in Users : RecvAfterTeardown(u)
    \/ \E u \in Users : RecvAudio(u)
    \/ \E u \in Users : RecvAudioBad(u)
    \/ \E u \in Users : SttReturn(u)
    \/ \E u \in Users : LlmReturn(u)
    \/ \E u \in Users : RecvPing(u)
    \/ \E u \in Users : RecvPlaybackComplete(u)
    \/ \E u \in Users : RecvClose(u)
    \/ \E t \in TaskIds : TaskStart(t)
    \/ \E t \in TaskIds : TaskFire(t)
    \/ \E t \in TaskIds : TaskSynth(t)
    \/ \E t \in TaskIds : TaskPace(t)
    \/ \E t \in TaskIds : TaskCancelled(t)

Spec == Init /\ [][Next]_vars

\* the same program, with the tasks that outlive their session marked
InitLoss ==
    /\ active_connections = {}
    /\ user_sessions = EmptyMap
    /\ user_llm_clients = EmptyMap
    /\ user_timeout_tasks = EmptyMap
    /\ user_timeout_active = EmptyMap
    /\ user_timeout_stage = EmptyMap
    /\ tasks = [t \in TaskIds |-> FreeTask]
    /\ epc = [u \in Users |-> "idle"]
    /\ sent = <<>>
    /\ attempts = <<>>
    /\ act = "init"
    /\ logging = FALSE
    /\ log = <<>>
    /\ mode = "tracked"
    /\ nfrag = 0
    /\ SpeakIdle
    /\ ChunkIdle
    /\ HistIdle
    /\ ConnIdle
    /\ SttIdle

SpecLoss == InitLoss /\ [][Next]_vars

\* ------------------------------------------- the pipelines on their own
\* A text of nfrag fragments goes through one delivery discipline.
\* streamed: _synthesize_and_send_audio as the handler of a stage-1 or
\* stage-2 deadline calls it, on an open session whose deadline is about to
\* elapse.  overlapped: speak(text).
InitPipe ==
    /\ logging = TRUE
    /\ log = <<>>
    /\ nfrag \in 0..MaxFrags
    /\ mode \in {"streamed", "overlapped"}
    /\ sent = <<>>
    /\ attempts = <<>>
    /\ act = "init"
    /\ SpeakIdle
    /\ ChunkIdle
    /\ HistIdle
    /\ ConnIdle
    /\ SttIdle
    /\ active_connections = IF mode = "streamed" THEN Users ELSE {}
    /\ user_sessions = [u \in active_connections |-> NewSession]
    /\ user_llm_clients = [u \in active_connections |-> NewClient]
    /\ user_timeout_tasks = [u \in active_connections |-> 1]
    /\ user_timeout_active = [u \in active_connections |-> TRUE]
    /\ epc = [u \in Users |-> IF mode = "streamed" THEN "recv" ELSE "idle"]
    /\ \E st \in 1..2 :
          /\ user_timeout_stage = [u \in active_connections |-> st]
          /\ tasks = [t \in TaskIds |->
                IF t = 1 /\ mode = "streamed"
                THEN [pc |-> "sleep", user |-> "u1", stage |-> st, i |-> 0,
                      n |-> nfrag, cancelled |-> FALSE, stale |-> FALSE]
                ELSE FreeTask]

NextPipe ==
    \/ \E t \in TaskIds : TaskFire(t)
    \/ \E t \in TaskIds : TaskSynth(t)
    \/ \E t \in TaskIds : TaskPace(t)
    \/ \E t \in TaskIds : TaskCancelled(t)
    \/ SpeakStart
    \/ ProdSynth
    \/ ProdPut
    \/ ConsGet
    \/ ConsTimeout
    \/ ConsPlayed

SpecPipe == InitPipe /\ [][NextPipe]_vars

\* speak() under a fair event loop: a synthesis call and a playback call
\* return, the 1 s timeout of wait_for elapses, a coroutine that can resume
\* is resumed
FairSpeak ==
    /\ WF_vars(ProdSynth)
    /\ WF_vars(ProdPut)
    /\ WF_vars(ConsGet)
    /\ WF_vars(ConsTimeout)
    /\ WF_vars(ConsPlayed)

SpecPipeLive == SpecPipe /\ FairSpeak

\* ---------------------------------------------------- the chunker on its own
Texts == UNION {[1..n -> Alphabet] : n \in 0..MaxText}

InitChunk ==
    /\ in_text \in Texts
    /\ chunk_size \in 1..MaxChunkSize
    /\ chunks = <<>>
    /\ split_done = FALSE
    /\ active_connections = {}
    /\ user_sessions = EmptyMap
    /\ user_llm_clients = EmptyMap
    /\ user_timeout_tasks = EmptyMap
    /\ user_timeout_active = EmptyMap
    /\ user_timeout_stage = EmptyMap
    /\ tasks = [t \in TaskIds |-> FreeTask]
    /\ epc = [u \in Users |-> "idle"]
    /\ sent = <<>>
    /\ attempts = <<>>
    /\ act = "init"
    /\ logging = FALSE
    /\ log = <<>>
    /\ mode = "chunker"
    /\ nfrag = 0
    /\ SpeakIdle
    /\ HistIdle
    /\ ConnIdle
    /\ SttIdle

NextChunk == SplitText

SpecChunk == InitChunk /\ [][NextChunk]_vars

\* ----------------------------------- two connections, client-chosen ids
NextTwo ==
    \/ \E c \in Conns, u \in Ids : TwoConnect(c, u)
    \/ \E c \in Conns : TwoGreetReturn(c)
    \/ \E c \in Conns : TwoRecvAfterTeardown(c)
    \/ \E c \in Conns : TwoRecvPlaybackComplete(c)
    \/ \E c \in Conns : TwoRecvClose(c)
    \/ \E t \in TaskIds : TaskStart(t)
    \/ \E t \in TaskIds : TaskFire(t)
    \/ \E t \in TaskIds : TaskSynth(t)
    \/ \E t \in TaskIds : TaskPace(t)
    \/ \E t \in TaskIds : TaskCancelled(t)

SpecTwo == Init /\ [][NextTwo]_vars

\* ------------------------------------------- uploads and connections
Tokens == {"s1", "s2"}
Docs == {"d1", "d2"}

NextUpload ==
    \/ \E tok \in Tokens, doc \in Docs : UploadCv(tok, doc)
    \/ \E tok \in Tokens : CvAge(tok)
    \/ \E c \in Conns, u \in Ids, tok \in Tokens \cup {"None"} :
          UpConnect(c, u, tok)
    \/ \E c \in Conns : TwoGreetReturn(c)
    \/ \E c \in Conns : TwoRecvAfterTeardown(c)
    \/ \E c \in Conns : TwoRecvClose(c)
    \/ \E c \in Conns, doc \in Docs : UpProcessCvUpload(c, doc)

SpecUpload == Init /\ [][NextUpload]_vars

\* ------------------------------------------- sessions that hold a document
\* websocket_endpoint of the one endpoint a user id has, with ?session_id=tok,
\* up to the completion call of the greeting
ConnectLoaded(u, tok) ==
    /\ epc[u] = "idle" /\ Quiet
    /\ \E f \in SendBudgets(1) :
          LET cv == CleanupOldCvSessions(cv_sessions)
          IN /\ CommitSession(LoadCv(ConnectSession(State(f), u), u, cv, tok))
             /\ cv_sessions' = cv
    /\ UNCHANGED <<connVars, uploaded, received, presented>>
    /\ epc' = [epc EXCEPT ![u] = "greet"]
    /\ act' = "connect"

\* the server has stored one upload and no socket has connected yet
InitRemind ==
    /\ active_connections = {}
    /\ user_sessions = EmptyMap
    /\ user_llm_clients = EmptyMap
    /\ user_timeout_tasks = EmptyMap
    /\ user_timeout_active = EmptyMap
    /\ user_timeout_stage = EmptyMap
    /\ tasks = [t \in TaskIds |-> FreeTask]
    /\ epc = [u \in Users |-> "idle"]
    /\ sent = <<>>
    /\ attempts = <<>>
    /\ act = "init"
    /\ logging = FALSE
    /\ log = <<>>
    /\ mode = "session"
    /\ nfrag = 0
    /\ SpeakIdle
    /\ ChunkIdle
    /\ HistIdle
    /\ SttIdle
    /\ conns = [c \in Conns |-> [pc |-> "idle", user |-> "none"]]
    /\ websocket_of = [u \in Ids |-> "none"]
    /\ cv_sessions = Put(EmptyMap, "s1", [cv_text |-> "d1", old |-> FALSE])
    /\ uploaded = {"d1"}
    /\ received = [c \in Conns |-> "None"]
    /\ presented = [c \in Conns |-> "none"]

\* the sessions of Spec, each opened with the session_id of the upload
NextRemind ==
    \/ \E u \in Users : ConnectLoaded(u, "s1")
    \/ \E u \in Users : GreetReturn(u)
    \/ \E u \in Users : RecvAfterTeardown(u)
    \/ \E u \in Users : RecvAudio(u)
    \/ \E u \in Users : RecvAudioBad(u)
    \/ \E u \in Users : SttReturn(u)
    \/ \E u \in Users : LlmReturn(u)
    \/ \E u \in Users : RecvPing(u)
    \/ \E u \in Users : RecvPlaybackComplete(u)
    \/ \E u \in Users : RecvClose(u)
    \/ \E t \in TaskIds : TaskStart(t)
    \/ \E t \in TaskIds : TaskFire(t)
    \/ \E t \in TaskIds : TaskSynth(t)
    \/ \E t \in TaskIds : TaskPace(t)
    \/ \E t \in TaskIds : TaskCancelled(t)

SpecRemind == InitRemind /\ [][NextRemind]_vars

\* -------------------------------------------- a transcription on its own
\* One audio message whose three engine calls behave in any of the ways.
InitStt ==
    /\ active_connections = {}
    /\ user_sessions = EmptyMap
    /\ user_llm_clients = EmptyMap
    /\ user_timeout_tasks = EmptyMap
    /\ user_timeout_active = EmptyMap
    /\ user_timeout_stage = EmptyMap
    /\ tasks = [t \in TaskIds |-> FreeTask]
    /\ epc = [u \in Users |-> "idle"]
    /\ sent = <<>>
    /\ attempts = <<>>
    /\ act = "init"
    /\ logging = FALSE
    /\ log = <<>>
    /\ mode = "stt"
    /\ nfrag = 0
    /\ SpeakIdle
    /\ ChunkIdle
    /\ HistIdle
    /\ conns = [c \in Conns |-> [pc |-> "idle", user |-> "none"]]
    /\ websocket_of = [u \in Ids |-> "none"]
    /\ cv_sessions = EmptyMap
    /\ uploaded = {}
    /\ received = [c \in Conns |-> "None"]
    /\ presented = [c \in Conns |-> "none"]
    /\ stt_engine \in [{"short_phrase", "standard", "minimal"} -> EngineOutcomes]
    /\ stt_pc = "idle"
    /\ stt_k = 0
    /\ stt_tried = <<>>
    /\ stt_result = ""

NextStt == SttBegin \/ SttAttempt

SpecStt == InitStt /\ [][NextStt]_vars

\* ------------------------------------------- a completion client on its own
InitHist ==
    /\ hist_cap \in {HistoryCap, LongHistoryCap}
    /\ conversation_history = <<>>
    /\ interview_completed = FALSE
    /\ n_calls = 0
    /\ n_stored = 0
    /\ n_marked = 0
    /\ hist_ret = NoReturn
    /\ active_connections = {}
    /\ user_sessions = EmptyMap
    /\ user_llm_clients = EmptyMap
    /\ user_timeout_tasks = EmptyMap
    /\ user_timeout_active = EmptyMap
    /\ user_timeout_stage = EmptyMap
    /\ tasks = [t \in TaskIds |-> FreeTask]
    /\ epc = [u \in Users |-> "idle"]
    /\ sent = <<>>
    /\ attempts = <<>>
    /\ act = "init"
    /\ logging = FALSE
    /\ log = <<>>
    /\ mode = "history"
    /\ nfrag = 0
    /\ SpeakIdle
    /\ ChunkIdle
    /\ ConnIdle
    /\ SttIdle

NextHist == HistCall \/ HistClear

SpecHist == InitHist /\ [][NextHist]_vars

\* =========================================================== the claims
Sleeping(t) == tasks[t].pc = "sleep" /\ ~tasks[t].cancelled
Delivering(t) == tasks[t].pc \in {"synth", "pace"} /\ ~tasks[t].cancelled
PendingDeadlines(u) == {t \in TaskIds : tasks[t].user = u /\ Sleeping(t)}

\* C1: at every instant a session has at most one pending watchdog deadline,
\* that is at most one _timeout_handler task that sleeps and can still fire.
C1_AtMostOnePendingDeadline ==
    \A u \in Users : Cardinality(PendingDeadlines(u)) <= 1

\* C2: a step of process_audio that handles a non-empty transcript leaves
\* the watchdog cancelled: no active flag set, stage 0, no handle in
\* user_timeout_tasks and the task the handle named cancelled; when the step
\* ends at the completion call, the flag and the stage are stored as False
\* and 0.
C2_StepCancels(u) ==
    /\ ~Get(user_timeout_active', u, FALSE)
    /\ Get(user_timeout_stage', u, 0) = 0
    /\ u \notin DOMAIN user_timeout_tasks'
    /\ (u \in DOMAIN user_timeout_tasks /\ user_timeout_tasks[u] # 0)
          => tasks'[user_timeout_tasks[u]].cancelled
    /\ epc'[u] = "llm" =>
          /\ u \in DOMAIN user_timeout_active'
          /\ u \in DOMAIN user_timeout_stage'

C2_CancelledBeforeCompletionCall ==
    [][\A u \in Users :
          (epc[u] = "stt" /\ (act' = "stt_text" \/ epc'[u] = "llm"))
             => C2_StepCancels(u)]_vars

\* a deadline was running when the transcript arrived, and the completion
\* call has begun
C2_Witness ==
    \E u \in Users, t \in TaskIds :
        /\ epc[u] = "llm" /\ act = "stt_text"
        /\ tasks[t].user = u /\ tasks[t].pc = "sleep" /\ tasks[t].cancelled

\* C3: the step of process_audio that handles an empty transcript makes no
\* completion call and, on a connection that stays open, sends one status
\* event and changes neither the history nor the watchdog (flag, stage,
\* handle and tasks).
C3_EmptyStep(u) ==
    /\ epc'[u] = "recv"
    /\ u \in active_connections' =>
          /\ sent' = <<Ev("status", 1)>>
          /\ UNCHANGED <<active_connections, user_sessions, user_llm_clients,
                         user_timeout_tasks, user_timeout_active,
                         user_timeout_stage, tasks>>
    /\ u \notin active_connections =>
          /\ sent' = <<>>
          /\ UNCHANGED <<active_connections, user_sessions, user_llm_clients,
                         user_timeout_tasks, user_timeout_active,
                         user_timeout_stage, tasks>>

C3_EmptyTranscriptChangesNothing ==
    [][\A u \in Users :
          (epc[u] = "stt" /\ act' = "stt_empty") => C3_EmptyStep(u)]_vars

\* an empty transcript was reported while a deadline was running, and the
\* deadline still runs
C3_Witness ==
    \E u \in Users, t \in TaskIds :
        /\ act = "stt_empty" /\ sent = <<Ev("status", 1)>>
        /\ Get(user_timeout_active, u, FALSE)
        /\ Get(user_timeout_tasks, u, 0) = t
        /\ tasks[t].user = u /\ Sleeping(t)

\* C4: the watchdog stage of a connected session (0, Idle, when the key is
\* absent) moves only 0 -> 1, 1 -> 2, 2 -> 3 or from any stage to 0: it never
\* skips a stage and never moves from a higher waiting stage to a lower one.
StageStep(a, b) ==
    \/ b = a
    \/ b = 0
    \/ a = 0 /\ b = 1
    \/ a \in {1, 2} /\ b = a + 1

C4_StageMonotonic ==
    [][\A u \in Users :
          (u \in active_connections /\ u \in active_connections') =>
          StageStep(Get(user_timeout_stage, u, 0),
                    Get(user_timeout_stage', u, 0))]_vars

\* C5: no watchdog deadline is pending for a session while a
\* _synthesize_and_send_audio for that session is still running.
C5_NoDeadlineDuringDelivery ==
    \A t1, t2 \in TaskIds :
        ~(/\ tasks[t1].user = tasks[t2].user
          /\ Delivering(t1)
          /\ Sleeping(t2))

\* C6: the receive loop of a connection is entered only by the step that
\* ends the greeting turn, and a watchdog deadline is armed (a task created,
\* the active flag raised) only by a step that handles audio_playback_complete,
\* never by the greeting turn itself.
InLoop(pc) == pc \in {"recv", "stt", "llm"}

C6_Step(u) ==
    /\ (~InLoop(epc[u]) /\ InLoop(epc'[u])) =>
          (epc[u] = "greet" /\ act' = "greeted")
    /\ (\E t \in TaskIds : tasks[t].pc = "free" /\ tasks'[t].pc # "free")
          => act' = "playback_complete"
    /\ (~Get(user_timeout_active, u, FALSE) /\ Get(user_timeout_active', u, FALSE))
          => act' = "playback_complete"

C6_GreetingFirstArmedOnSignal == [][\A u \in Users : C6_Step(u)]_vars

\* the greeting turn has just been delivered on an open connection and no
\* deadline is armed
C6_Witness ==
    \E u \in Users :
        /\ act = "greeted" /\ u \in active_connections /\ epc[u] = "recv"
        /\ \E k \in 1..Len(sent) : sent[k] = Ev("completed", 0)
        /\ ~Get(user_timeout_active, u, FALSE)
        /\ \A t \in TaskIds : tasks[t].pc = "free"

\* C7: a reminder of the stage-1 pool is sent only while the watchdog is in
\* stage 1 (one reminder per silent stage-1 period), and the stage becomes 2
\* only in the step that sends the completed event of that reminder.
HasEvent(evs, e) == \E k \in 1..Len(evs) : evs[k] = e

C7_Step(u) ==
    /\ (act' = "fire" /\ HasEvent(sent', Ev("bot_text", 1)))
          => Get(user_timeout_stage, u, 0) = 1
    /\ (u \in active_connections' /\ Get(user_timeout_stage, u, 0) # 2
            /\ Get(user_timeout_stage', u, 0) = 2)
          => HasEvent(sent', Ev("completed", 0))

C7_OneStage1ReminderThenStage2 == [][\A u \in Users : C7_Step(u)]_vars

\* C8: a handler that has begun to deliver the stage-3 closing message ends
\* with the session removed from the registry, having sent interview_ended
\* if the connection still took it; and a message received for a removed
\* session changes nothing and sends nothing.
C8_Step(u) ==
    /\ \A t \in TaskIds :
          (/\ tasks[t].user = u /\ tasks[t].stage = 3
           /\ tasks[t].pc \in {"synth", "pace"}
           /\ tasks'[t].pc = "free")
          => /\ u \notin active_connections'
             /\ u \notin DOMAIN user_sessions'
             /\ u \in active_connections =>
                   (HasEvent(sent', Ev("interview_ended", 0)) \/ sent' = <<>>)
    /\ act' = "break" =>
          /\ sent' = <<>>
          /\ UNCHANGED <<active_connections, user_sessions, user_llm_clients,
                         user_timeout_tasks, user_timeout_active,
                         user_timeout_stage, tasks>>

C8_Stage3EndsSession == [][\A u \in Users : C8_Step(u)]_vars

\* ------------------------------------------------ the delivery pipelines
IsSynth(e) == e.type \in {"synth_ok", "synth_none"}
IsAudio(e) == e.type = "audio_chunk"
IsCompleted(e) == e.type = "completed"
Increasing(q) == \A j, k \in 1..Len(q) : j < k => q[j] < q[k]
Args(q) == [k \in 1..Len(q) |-> q[k].arg]

\* C9: streamed delivery asks for the synthesis of the fragments one after
\* the other in input order and goes on after a failed one; an audio_chunk
\* is sent only for a fragment whose synthesis succeeded, right after it, so
\* the chunks sent are the successful fragments in input order; completed is
\* sent at most once, as the last event, after every fragment was tried and
\* every successful one sent, and it is sent when the run ends on an open
\* connection.
C9_StreamedSkipsFailedFragment ==
    mode = "streamed" =>
    LET synths == SelectSeq(log, IsSynth)
        done == SelectSeq(log, IsCompleted)
    IN /\ \A k \in 1..Len(synths) : synths[k].arg = k - 1
       /\ Len(synths) <= nfrag
       /\ \A k \in 1..Len(log) :
             IsAudio(log[k]) =>
                 k > 1 /\ log[k - 1] = Ev("synth_ok", log[k].arg)
       /\ Len(done) <= 1
       /\ Len(done) = 1 =>
             /\ IsCompleted(log[Len(log)])
             /\ Len(synths) = nfrag
             /\ \A k \in 1..Len(log) :
                   log[k].type = "synth_ok" =>
                       /\ k < Len(log) /\ IsAudio(log[k + 1])
                       /\ log[k + 1].arg = log[k].arg
       /\ (tasks[1].pc = "free" /\ "u1" \in active_connections) => Len(done) = 1

\* a run that ended with completed, in which a fragment failed and a later
\* one was sent
C9_Witness ==
    /\ mode = "streamed"
    /\ Len(log) > 0 /\ IsCompleted(log[Len(log)])
    /\ \E j, k \in 1..Len(log) :
          /\ j < k
          /\ log[j].type = "synth_none"
          /\ IsAudio(log[k])

\* C10: both disciplines emit in input order: the audio_chunk events of a
\* streamed run and the units the player of an overlapped run has played
\* carry strictly increasing fragment indices of the text.
C10_InputOrder ==
    /\ Increasing(Args(SelectSeq(log, IsAudio)))
    /\ Increasing(played)
    /\ \A k \in 1..Len(played) : played[k] \in 0..(nfrag - 1)

\* an overlapped run that is over, has played several units and skipped a
\* failed fragment
C10_Witness ==
    /\ mode = "overlapped" /\ cpc = "done"
    /\ Len(played) >= 2 /\ Len(played) < nfrag

\* ------------------------------------------------------------ the chunker
\* the comma-delimited pieces of the input that alone are longer than size
LongPieces(txt, size) ==
    LET ss == Sentences(txt)
        long == {k \in 1..Len(ss) : Len(ss[k]) > size}
        parts == UNION {{CommaSplit(ss[k])[j] : j \in 1..Len(CommaSplit(ss[k]))}
                        : k \in long}
    IN {p \in parts : Len(p) > size}

\* C11: every fragment split_text_into_chunks returns is at most chunk_size
\* characters long, unless it is one comma-delimited piece of the input that
\* alone is longer than chunk_size (with or without the comma put after it).
C11_FragmentsWithinChunkSize ==
    split_done =>
        \A k \in 1..Len(chunks) :
            \/ Len(chunks[k]) <= chunk_size
            \/ \E p \in LongPieces(in_text, chunk_size) :
                  chunks[k] \in {Strip(p), Strip(p \o <<",", " ">>)}

\* the words of a str: the maximal runs of characters that are neither
\* terminators, commas nor spaces, in order
IsSep(c) == IsTerm(c) \/ IsSpace(c) \/ c = ","

RECURSIVE WordsFrom(_, _, _)
WordsFrom(s, i, cur) ==
    IF i > Len(s) THEN (IF cur = <<>> THEN <<>> ELSE <<cur>>)
    ELSE IF IsSep(s[i])
         THEN (IF cur = <<>> THEN <<>> ELSE <<cur>>) \o WordsFrom(s, i + 1, <<>>)
         ELSE WordsFrom(s, i + 1, Append(cur, s[i]))

Words(s) == WordsFrom(s, 1, <<>>)

RECURSIVE JoinChunks(_)
JoinChunks(cs) ==
    IF cs = <<>> THEN <<>> ELSE Head(cs) \o <<" ">> \o JoinChunks(Tail(cs))

\* C12: the fragments split_text_into_chunks returns, put one after the
\* other, hold the words of the input text, each once and in input order:
\* only terminators, commas and spaces differ, nothing is lost, duplicated
\* or reordered.
C12_FragmentsRecoverText ==
    split_done => Words(JoinChunks(chunks)) = Words(in_text)

\* a text of several sentences, one of them longer than chunk_size and cut
\* at its commas, returned as several fragments
C12_Witness ==
    /\ split_done
    /\ Len(chunks) >= 2
    /\ Len(Sentences(in_text)) >= 2
    /\ \E k \in 1..Len(Sentences(in_text)) :
          /\ Len(Sentences(in_text)[k]) > chunk_size
          /\ Len(CommaSplit(Sentences(in_text)[k])) >= 2

\* C13: a handler that is cancelled before it has sent anything sends nothing,
\* and a handler that has begun to send a reminder ends, on a connection that
\* stays open, only by sending the completed event of that reminder.
C13_Step(t) ==
    /\ (tasks[t].pc \in {"start", "sleep"} /\ tasks[t].cancelled
            /\ tasks'[t].pc = "free")
          => sent' = <<>>
    /\ (/\ tasks[t].pc \in {"synth", "pace"}
        /\ tasks'[t].pc = "free"
        /\ tasks[t].user \in active_connections')
          => HasEvent(sent', Ev("completed", 0))

C13_BegunReminderCompletes == [][\A t \in TaskIds : C13_Step(t)]_vars

\* C14: a turn in which the transcription engine or the completion engine
\* raised sends, on a connection that stays open, an error event and no
\* bot_text event.
HasType(evs, ty) == \E k \in 1..Len(evs) : evs[k].type = ty

C14_Step(u) ==
    (/\ \/ epc[u] = "stt" /\ act' = "stt_raise"
        \/ epc[u] = "llm" /\ act' = "reply_failed"
     /\ u \in active_connections')
    => /\ HasType(sent', "error")
       /\ ~HasType(sent', "bot_text")

C14_EngineFailureIsErrorEvent == [][\A u \in Users : C14_Step(u)]_vars

\* C15: after a turn in which an engine raised and the connection stayed
\* open, the session record is still there and the endpoint is back in
\* receive, so the next audio message is processed; and the watchdog can be
\* armed again: a handler task of the session is still at work (its deadline
\* pending or its reminder in delivery), or the next audio_playback_complete
\* arms a deadline.  Every audio_playback_complete handled
\* on an open connection leaves the flag raised and a new task as the handle.
ArmedFor(s, u) ==
    /\ Get(s.user_timeout_active, u, FALSE)
    /\ u \in DOMAIN s.user_timeout_tasks
    /\ s.user_timeout_tasks[u] # 0
    /\ s.tasks[s.user_timeout_tasks[u]].pc = "start"
    /\ s.tasks[s.user_timeout_tasks[u]].user = u
    /\ ~s.tasks[s.user_timeout_tasks[u]].cancelled

FailedTurn(u) ==
    /\ act \in {"stt_raise", "reply_failed"}
    /\ u \in active_connections

C15_Usable(u) ==
    /\ u \in DOMAIN user_sessions
    /\ epc[u] = "recv"
    /\ \/ \E t \in TaskIds : tasks[t].user = u /\ ~tasks[t].cancelled
                               /\ tasks[t].pc # "free"
       \/ /\ FreeIds(tasks) # {}
          /\ PlaybackComplete(State(0), u).pc = "recv"
          /\ ArmedFor(PlaybackComplete(State(0), u).st, u)

C15_Step(u) ==
    /\ FailedTurn(u)' => C15_Usable(u)'
    /\ (act' = "playback_complete" /\ u \in active_connections')
          => ArmedFor(State(0), u)'

C17_Step(u) ==
    /\ act' \in {"audio", "audio_bad", "ping", "playback_complete", "break"}
          => epc[u] = "recv"
    /\ (epc'[u] = "stt" /\ act' = "audio") => epc[u] = "recv"
    /\ epc'[u] = "llm" => epc[u] \in {"stt", "llm"}
    /\ epc'[u] = "greet" => epc[u] \in {"idle", "greet"}
    /\ (epc[u] \in {"greet", "llm"} /\ epc'[u] # epc[u])
          => (epc'[u] = "recv" /\ act' \in {"greeted", "replied", "reply_failed"})

C19_Step(u) ==
    (u \in active_connections /\ u \notin active_connections')
    => /\ u \notin DOMAIN user_sessions'
       /\ u \notin DOMAIN user_llm_clients'
       /\ u \notin DOMAIN user_timeout_tasks'
       /\ \A t \in TaskIds : tasks'[t].user = u => tasks'[t].cancelled

C19_DisconnectReleasesAll == [][\A u \in Users : C19_Step(u)]_vars

\* C20: while a user has no connection nothing is sent for it, and a handler
\* task that was alive when its session was torn down never sends an event
\* afterwards, and its deadline never fires into a delivery.
C20_Step(u) ==
    /\ (u \notin active_connections /\ u \notin active_connections')
          => sent' = <<>>
    /\ \A t \in TaskIds :
          (tasks[t].user = u /\ tasks[t].stale /\ tasks'[t] # tasks[t])
          => /\ sent' = <<>>
             /\ tasks[t].pc = "sleep" => tasks'[t].pc \notin {"synth", "pace"}

C20_NothingAfterConnectionLoss == [][\A u \in Users : C20_Step(u)]_vars

\* ------------------------------------------------------------ the history
\* C16: the history of a client has even length, is at most the cap of its
\* class long (10 for OpenRouterClient, 20 for LLMProcessor and
\* LanguageModelProcessor), holds a user entry followed by the assistant
\* entry of the same turn at every odd position, and holds the most recently
\* stored turns in the order they were stored: the oldest are the ones cut.
C16_HistoryShape ==
    LET h == conversation_history
        pairs == Len(h) \div 2
    IN /\ Len(h) % 2 = 0
       /\ Len(h) <= hist_cap
       /\ pairs <= n_stored
       /\ \A k \in 1..pairs :
             /\ h[2 * k - 1].role = "user"
             /\ h[2 * k - 1].turn = n_stored - pairs + k
             /\ h[2 * k].role = "assistant"
             /\ h[2 * k].turn = n_stored - pairs + k

\* the history is full and its oldest turns have been cut
C16_Witness ==
    /\ Len(conversation_history) = hist_cap
    /\ hist_cap = LongHistoryCap
    /\ conversation_history[1].turn > 1

\* C33: a completion call in which the engine call raises leaves the
\* conversation history (and the completed flag) exactly as before the call,
\* so neither the user turn nor a reply is recorded, and the call returns
\* the error text, not ended.
C33_Step ==
    (n_calls' = n_calls + 1 /\ hist_ret'.engine = "raised")
    => /\ conversation_history' = conversation_history
       /\ interview_completed' = interview_completed
       /\ n_stored' = n_stored
       /\ hist_ret'.text = "error"
       /\ ~hist_ret'.ended

C33_FailedCallLeavesHistory == [][C33_Step]_vars

\* the engine call has failed on a client that holds turns, of either class
C33_Witness ==
    /\ hist_ret.engine = "raised"
    /\ hist_ret.text = "error"
    /\ Len(conversation_history) >= 2
    /\ hist_cap = LongHistoryCap

\* an OpenRouterClient whose interview is completed
Completed == hist_cap = HistoryCap /\ interview_completed

\* the completed state is left only by clear_history, and a chat_completion
\* made in it returns the closing text, ended, without an engine call and
\* without a change of the history
C34_CompletedStep ==
    Completed =>
       /\ ~interview_completed'
             => (n_calls' = n_calls /\ conversation_history' = <<>>)
       /\ n_calls' = n_calls + 1
             => /\ hist_ret' = [text |-> "closing", ended |-> TRUE,
                                engine |-> "none"]
                /\ conversation_history' = conversation_history
                /\ interview_completed'

\* no entry of the history holds the marker
MarkerFree(h) == \A i \in 1..Len(h) : ~HasMarker(h[i].content)

\* C34: once an OpenRouterClient has received a reply that starts with the
\* marker it stays completed until clear_history: every chat_completion in
\* between returns the closing text with the ended flag, calls no engine and
\* leaves the history unchanged; and the marker is never stored in the
\* history of an OpenRouterClient.
C34_Step ==
    /\ C34_CompletedStep
    /\ hist_cap = HistoryCap => MarkerFree(conversation_history')

C34_CompletedUntilCleared == [][C34_Step]_vars

\* the endpoint coroutine of u has returned and no task of u is left
AllFinished(u) ==
    /\ epc[u] = "idle"
    /\ \A t \in TaskIds : tasks[t].user # u

\* C35: after disconnect, once the endpoint coroutine of u has returned and
\* every task of u has finished, u is a key of none of the per-user maps:
\* connections, sessions, completion clients, timeout tasks, timeout-active
\* flags, timeout stages.
C35_NoEntryLeft ==
    \A u \in Users :
        AllFinished(u) =>
           /\ u \notin active_connections
           /\ u \notin DOMAIN user_sessions
           /\ u \notin DOMAIN user_llm_clients
           /\ u \notin DOMAIN user_timeout_tasks
           /\ u \notin DOMAIN user_timeout_active
           /\ u \notin DOMAIN user_timeout_stage

\* C36: when a send to a session fails in a step, the session is torn down
\* by that send (the user is registered no more and has no session record at
\* the end of the step), every later send_message call of the step for that
\* user is a no-op, and the failure does not reach the caller: the greeting
\* turn and the reply turn still make all four of their send_message calls.
C36_Step ==
    LET a == attempts' IN
    /\ \A i \in 1..Len(a) :
          a[i].result = "failed" =>
             /\ a[i].user \notin active_connections'
             /\ a[i].user \notin DOMAIN user_sessions'
             /\ \A j \in (i + 1)..Len(a) :
                   a[j].user = a[i].user => a[j].result = "noop"
    /\ act' \in {"greeted", "replied"} => Len(a) = 4
    /\ sent' = SelectSeq([k \in 1..Len(a) |-> IF a[k].result = "sent"
                                              THEN a[k].ev ELSE Ev("none", 0)],
                         LAMBDA e : e # Ev("none", 0))

C36_FailedSendTearsDown == [][C36_Step]_vars

\* the second send of a reply turn has failed and the two after it were
\* no-ops
C36_Witness ==
    /\ act = "replied"
    /\ Len(attempts) = 4
    /\ attempts[1].result = "sent"
    /\ attempts[2].result = "failed"
    /\ attempts[3].result = "noop"
    /\ attempts[4].result = "noop"

\* C37: the audio_chunk events of one streamed delivery carry strictly
\* increasing chunk_index values between 0 and total_chunks - 1 and all the
\* same total_chunks, the number of fragments of the text; the index of an
\* event is the position of its fragment in the text, so a fragment whose
\* synthesis failed leaves a gap and the later ones are not renumbered.
C37_ChunkIndexing ==
    mode = "streamed" =>
    LET audio == SelectSeq(log, IsAudio) IN
    /\ Increasing(Args(audio))
    /\ \A k \in 1..Len(audio) :
          /\ audio[k].total = nfrag
          /\ audio[k].arg \in 0..(audio[k].total - 1)
    /\ \A k \in 1..Len(log) :
          /\ IsAudio(log[k]) => (k > 1 /\ log[k - 1] = Ev("synth_ok", log[k].arg))
          /\ log[k].type = "synth_none"
                => \A j \in 1..Len(log) : IsAudio(log[j]) => log[j].arg # log[k].arg

\* a delivery of three fragments in which the second was skipped: the
\* events carry the indices 0 and 2
C37_Witness ==
    /\ mode = "streamed" /\ nfrag = 3
    /\ Args(SelectSeq(log, IsAudio)) = <<0, 2>>
    /\ \E k \in 1..Len(log) : log[k] = Ev("synth_none", 1)

\* C39: a step of a handler that fires at stage 1 or 2 (the deadline
\* elapses, a synthesis call of the reminder returns, the pause after a
\* chunk ends) leaves, on a connection that stays open, the session record
\* with its document and profile, the completion client with its history and
\* its completed flag, the raised flag and the task handle as they were; of
\* the watchdog's state only the stage changes, to the next stage.
C39_Step(t) ==
    LET u == tasks[t].user IN
    (/\ tasks[t].pc \in {"sleep", "synth", "pace"}
     /\ ~tasks[t].cancelled
     /\ tasks[t].stage \in 1..2
     /\ act' \in {"fire", "synth", "pace"}
     /\ tasks'[t] # tasks[t]
     /\ u \in active_connections')
    => /\ user_sessions' = user_sessions
       /\ user_llm_clients' = user_llm_clients
       /\ user_timeout_active' = user_timeout_active
       /\ DOMAIN user_timeout_tasks' = DOMAIN user_timeout_tasks
       /\ \/ user_timeout_stage' = user_timeout_stage
          \/ /\ tasks'[t].pc = "free"
             /\ user_timeout_stage' =
                    Put(user_timeout_stage, u, tasks[t].stage + 1)

C39_ReminderLeavesSession == [][\A t \in TaskIds : C39_Step(t)]_vars

\* a stage-2 reminder has been delivered to a session that holds turns in
\* its history: the stage is 3
C39_Witness ==
    \E u \in Users :
        /\ act \in {"synth", "pace"}
        /\ HasEvent(sent, Ev("completed", 0))
        /\ Get(user_timeout_stage, u, 0) = 3
        /\ u \in DOMAIN user_llm_clients /\ user_llm_clients[u].hist >= 2
        /\ u \in active_connections
        /\ user_sessions[u].cv_text = "d1"

\* connection c is live and the registries' entry of its id is its own
Holds(c) ==
    /\ conns[c].pc \in {"greet", "recv"}
    /\ conns[c].user \in active_connections
    /\ websocket_of[conns[c].user] = c

SameAt(f, g, k) ==
    /\ (k \in DOMAIN f) <=> (k \in DOMAIN g)
    /\ k \in DOMAIN f => f[k] = g[k]

\* the registry entry, the client with its history and the watchdog state of
\* id u are what they were before the step
EntryUnchanged(u) ==
    /\ (u \in active_connections) <=> (u \in active_connections')
    /\ websocket_of'[u] = websocket_of[u]
    /\ SameAt(user_sessions, user_sessions', u)
    /\ SameAt(user_llm_clients, user_llm_clients', u)
    /\ SameAt(user_timeout_tasks, user_timeout_tasks', u)
    /\ SameAt(user_timeout_active, user_timeout_active', u)
    /\ SameAt(user_timeout_stage, user_timeout_stage', u)

C18_Step ==
    /\ \A d \in Conns :
          conns[d].pc # "closed" /\ conns'[d].pc = "closed" =>
             \A c \in Conns \ {d} :
                Holds(c) => Holds(c)' /\ EntryUnchanged(conns[c].user)
    /\ \A v \in Ids :
          v \in active_connections /\ v \notin active_connections' =>
             \A c \in Conns :
                Holds(c) /\ conns[c].user # v => EntryUnchanged(conns[c].user)
    /\ \A d \in Conns :
          conns[d].pc = "idle" /\ conns'[d].pc = "greet" =>
             user_llm_clients'[conns'[d].user] = NewClient

\* C18: the teardown of one connection's session (its endpoint returns, a send
\* fails, the third stage expires) leaves the registry entry, the history and
\* the watchdog state of every other live connection as they were, whatever
\* ids the two clients supplied, and a connection that has just been accepted
\* has a client with an empty history.
C18_TeardownTouchesNoOtherSession == [][C18_Step]_vars

\* ------------------------------------------------------------ speak()
\* gather() has returned: both coroutines are over
SpeakReturned == ppc = "done" /\ cpc = "done"

\* C21: in speak() the player leaves its loop only when the synthesizer has
\* set synthesis_done and the queue is empty, never because the queue merely
\* stayed empty for a while; so once the player is over the synthesizer is
\* over too and every unit synthesize_chunk returned has been played, in
\* that order.
C21_PlayerStopsAfterAllPlayed ==
    (mode = "overlapped" /\ cpc = "done") =>
        /\ synthesis_done
        /\ audio_queue = <<>>
        /\ ppc = "done"
        /\ played = synthesized

\* the player is over after three or more units were synthesized
C21_Witness ==
    /\ mode = "overlapped" /\ cpc = "done"
    /\ Len(synthesized) >= 3

C22_Step ==
    /\ Len(audio_queue') <= 3
    /\ (ppc # "put" /\ ppc' = "put") =>
          Len(audio_queue) = 3 /\ audio_queue' = audio_queue
    /\ (ppc = "put" /\ ppc' # "put") =>
          Len(audio_queue) < 3 /\ audio_queue' = Append(audio_queue, pidx)
    /\ (ppc = "put" /\ ppc' = "put" /\ audio_queue' # audio_queue) =>
          audio_queue' = Tail(audio_queue)

\* C22: in speak() the queue never holds more than 3 synthesized units; the
\* synthesizer suspends in put() exactly when it has a unit and the queue
\* holds 3, adds nothing while suspended, and its unit enters the queue only
\* in a step that starts with fewer than 3, that is after the player took one.
C22_QueueNeverExceedsThree == [][C22_Step]_vars

\* the synthesizer is suspended in put() on a full queue
C22_Witness == mode = "overlapped" /\ ppc = "put" /\ Len(audio_queue) = 3

\* C23: once speak() has started its two coroutines it returns: under a fair
\* event loop, with every synthesis and playback call returning, the
\* synthesizer ends with synthesis_done set and the player ends.
C23_SpeakReturns ==
    (mode = "overlapped" /\ ppc # "idle") ~> (SpeakReturned /\ synthesis_done)

\* speak() has returned after a run in which the queue could fill up
C23_Witness == mode = "overlapped" /\ SpeakReturned /\ Len(played) >= 4

\* ------------------------------------------- arming after a delivered turn
C24_Step(u) ==
    (act' = "playback_complete" /\ u \in active_connections) =>
        /\ \E t \in TaskIds :
              /\ tasks[t].pc = "free"
              /\ tasks'[t].pc = "start" /\ tasks'[t].user = u
        /\ PendingDeadlines(u) = {}

\* C24: the watchdog is armed once per delivered turn.  The client reports
\* the end of a turn's playback with audio_playback_complete; the step that
\* handles it arms a deadline (creates a handler task of the session), and it
\* does so only when no deadline armed earlier is still pending: a pending
\* deadline was armed for the same turn, since a later reply turn would have
\* cancelled it and a later reminder turn is the deadline itself elapsing.
C24_ArmedOncePerTurn == [][\A u \in Users : C24_Step(u)]_vars

\* ------------------------------------------------ delivery of a reply
\* the completion call of the step stored a turn: the engine answered
CompletionSucceeded(u) ==
    /\ u \in DOMAIN user_llm_clients /\ u \in DOMAIN user_llm_clients'
    /\ user_llm_clients'[u].hist > user_llm_clients[u].hist

C25_Step(u) ==
    (/\ act' \in {"greeted", "replied"}
     /\ CompletionSucceeded(u)
     /\ u \in active_connections') =>
        /\ ~HasEvent(sent', Ev("error", 2))
        /\ \A j, k \in 1..Len(sent') :
              (IsAudio(sent'[j]) /\ IsCompleted(sent'[k])) => j < k
        /\ IsCompleted(sent'[Len(sent')])

\* C25: a greeting or reply turn whose completion call succeeded hands the
\* reply text to split_text_into_chunks and synthesizes its fragments: on a
\* connection that stays open the turn reports no speech synthesis error,
\* its audio_chunk events all precede completed, and completed ends the turn.
C25_ReplyIsSynthesized == [][\A u \in Users : C25_Step(u)]_vars

\* ------------------------------------------------ one delivery at a time
\* handler tasks of u inside _synthesize_and_send_audio
Deliveries(u) == {t \in TaskIds : tasks[t].user = u /\ Delivering(t)}

C26_Step(u) ==
    /\ Cardinality(Deliveries(u)') <= 1
    /\ (act' \in {"greeted", "replied", "reply_failed"} /\ sent' # <<>>) =>
          Deliveries(u) = {}

\* C26: a session has at most one output delivery in progress: never two
\* handler tasks of it inside _synthesize_and_send_audio, and the greeting or
\* a reply is not sent while a reminder of the session is being delivered.
C26_OneDeliveryAtATime == [][\A u \in Users : C26_Step(u)]_vars

\* ------------------------------------------ deadlines after a transcript
\* handler tasks of u that can still emit
LiveTasks(u) ==
    {t \in TaskIds : tasks[t].user = u /\ tasks[t].pc # "free"
                                       /\ ~tasks[t].cancelled}

C27_Step(u) == act' = "stt_text" => LiveTasks(u)' = {}

\* C27: the step of process_audio that handles a non-empty transcript
\* discards every deadline armed before it: it leaves no handler task of the
\* session that can still fire, so a reminder or the closing message can only
\* come from a task created by a later audio_playback_complete.
C27_TranscriptDiscardsDeadlines == [][\A u \in Users : C27_Step(u)]_vars

\* --------------------------------------------- stages follow deliveries
\* the reminder of stage n of u is being delivered
DeliveringStage(u, n) == {t \in Deliveries(u) : tasks[t].stage = n}

C28_Step(u) ==
    /\ \A t \in TaskIds :
          (/\ tasks[t].pc = "start" /\ tasks'[t].pc = "sleep"
           /\ tasks[t].user = u
           /\ tasks'[t].stage \in {2, 3}) =>
              DeliveringStage(u, tasks'[t].stage - 1) = {}
    /\ \A n \in {2, 3} :
          (/\ Get(user_timeout_stage, u, 0) = n - 1
           /\ Get(user_timeout_stage', u, 0) = n) =>
              \E t \in TaskIds :
                 /\ tasks[t].user = u /\ tasks[t].stage = n - 1
                 /\ tasks[t].pc \in {"synth", "pace"}
                 /\ tasks'[t].pc = "free"

\* C28: a handler task begins to wait for the deadline of stage 2 or 3 only
\* when no reminder of the stage before is being delivered to the session,
\* and user_timeout_stage goes from N-1 to N only in the step in which the
\* handler of stage N-1 has left _synthesize_and_send_audio and ends.
C28_StageArmedAfterPreviousReminder == [][\A u \in Users : C28_Step(u)]_vars

\* ------------------------------------------------------------- ping
C29_Step(u) ==
    (act' = "ping" /\ u \in active_connections') =>
        /\ sent' = <<Ev("pong", 0)>>
        /\ UNCHANGED <<active_connections, user_sessions, user_llm_clients,
                       user_timeout_tasks, user_timeout_active,
                       user_timeout_stage, tasks, epc>>

\* C29: the step that handles a ping sends, on a connection that stays open,
\* exactly one pong and nothing else, and leaves the session as it was: the
\* registry, the session record (document and profile), the completion
\* client with its history, the watchdog flag, stage and handle and every
\* handler task.
C29_PingOnlyPongs == [][\A u \in Users : C29_Step(u)]_vars

\* a ping was answered while a deadline of the session was pending, and the
\* deadline is still pending
C29_Witness ==
    \E u \in Users, t \in TaskIds :
        /\ act = "ping" /\ sent = <<Ev("pong", 0)>>
        /\ Get(user_timeout_active, u, FALSE)
        /\ Get(user_timeout_stage, u, 0) = 2
        /\ Get(user_timeout_tasks, u, 0) = t
        /\ tasks[t].user = u /\ Sleeping(t)

\* ------------------------------------------------------------ uploads
\* C30: an upload hydrates at most one session: no two connections are
\* given the text and profile of the same upload at connect.
C30_UploadConsumedOnce ==
    \A c, d \in Conns :
        (c # d /\ received[c] # "None") => received[c] # received[d]

\* the session record of u holds a document or a profile
ProfileSet(u) ==
    /\ u \in DOMAIN user_sessions
    /\ (user_sessions[u].cv_text # "None"
            \/ user_sessions[u].candidate_info # "None")

C31_Step(c) ==
    (Holds(c) /\ ProfileSet(conns[c].user) /\ Holds(c)') =>
        /\ conns[c].user \in DOMAIN user_sessions'
        /\ user_sessions'[conns[c].user] = user_sessions[conns[c].user]

\* C31: once the session record of a connection holds a document text or a
\* profile, every step that leaves the connection registered leaves both as
\* they were.
C31_ProfileImmutable == [][\A c \in Conns : C31_Step(c)]_vars

\* C38: a connect whose session_id names an upload older than the retention
\* window does not load it: the connection is given no document and the
\* session record made by the connect holds neither document nor profile;
\* no upload that old is left in cv_sessions after a connect.
C38_Step(c) ==
    (conns[c].pc = "idle" /\ conns'[c].pc = "greet")
    => /\ \A tok \in DOMAIN cv_sessions' : ~cv_sessions'[tok].old
       /\ presented'[c] = "expired"
             => /\ received'[c] = "None"
                /\ conns'[c].user \in DOMAIN user_sessions'
                      => user_sessions'[conns'[c].user] = NewSession

C38_ExpiredUploadNeverLoaded == [][\A c \in Conns : C38_Step(c)]_vars

\* a connect has presented the session_id of an expired upload and its
\* session is open with an empty record, while a later upload is stored
C38_Witness ==
    \E c \in Conns :
        /\ act = "connect" /\ conns[c].pc = "greet"
        /\ presented[c] = "expired"
        /\ received[c] = "None"
        /\ conns[c].user \in DOMAIN user_sessions
        /\ cv_sessions # EmptyMap

\* ------------------------------------------------------ transcription
\* positions of the configurations for which the engine returns a transcript
Hits == {k \in 1..3 : stt_engine[Configurations[k]] \in Transcripts}

\* C32: transcribe_audio_bytes returns a value whatever the engine does.  It
\* tries short_phrase, standard, minimal in that order and stops at the first
\* configuration that yields a transcript, whose text it returns; when none
\* of the three yields one, because the engine raised or because it found no
\* speech, all three were tried and the value returned is the empty string.
C32_TranscribeNeverRaises ==
    LET n == Len(stt_tried) IN
    /\ stt_tried = SubSeq(<<"short_phrase", "standard", "minimal">>, 1, n)
    /\ stt_pc = "done" =>
          IF Hits = {}
          THEN n = 3 /\ stt_result = ""
          ELSE /\ n \in Hits /\ \A k \in Hits : n <= k
               /\ stt_result # ""

\* a call is over in which the first two attempts raised and the third found
\* no speech
C32_Witness ==
    /\ stt_pc = "done" /\ stt_result = ""
    /\ stt_engine["short_phrase"] = "raise"
    /\ stt_engine["standard"] = "raise"
    /\ stt_engine["minimal"] = "none"

====
